---- MODULE Spec2Model ----
(***************************************************************************)
(* State-machine model of the OpAMP control plane (opamp-control-plane):   *)
(* the session layer (internal/opamp/server.go), the agent registry        *)
(* (internal/registry/sqlite.go) and the config resolver                   *)
(* (internal/config/resolver.go, selector.go, merger).                     *)
(***************************************************************************)
EXTENDS Integers, Sequences, FiniteSets, TLC

(***************************************************************************)
(* Bounds of the model.                                                    *)
(***************************************************************************)
\* agents (instance UIDs) that talk to the server in Spec
MaxAgents == 1
\* transport connections that can exist at the same time in Spec
MaxConns == 1
\* commits of the configuration repository the working tree moves through
MaxCommits == 3
\* instance UIDs that arrive over the one connection of SpecShared
MaxShared == 2
\* connections the one agent of SpecRace uses at the same time
MaxDup == 2
\* notifyCallbacks goroutines that can be alive at the same time in SpecSync
MaxNotify == 2
\* readings the clock advances through in SpecRegistry
MaxNow == 1
\* selectors in the selectors file of SpecResolve
MaxSelectors == 2
\* documents passed to one MergeMultiple call in SpecMerge
MaxConfigs == 3
\* event handlers that subscribe to the registry
MaxHandlers == 2

UIDNames == <<"a1", "a2", "a3">>
ConnNames == <<"c1", "c2", "c3">>
\* the instance UIDs agents put in their messages
UIDs == {UIDNames[i] : i \in 1..MaxAgents}
SharedUIDs == {UIDNames[i] : i \in 1..MaxShared}
AllUIDs == UIDs \cup SharedUIDs
\* the identities of the transport connections (types.Connection values)
Conns == {ConnNames[i] : i \in 1..MaxConns}
DupConns == {ConnNames[i] : i \in 1..MaxDup}
AllConns == Conns \cup DupConns
NoConn == "none"

(***************************************************************************)
(* Documents.  A structured document is a tree: a scalar, a sequence of    *)
(* scalars, or a mapping from keys to trees.  File contents (byte          *)
(* sequences) are a tree together with the form of the text: "raw" is the  *)
(* text as authored in the repository, "canon" is the output of            *)
(* yaml.Marshal (sorted keys, no comments), "empty" is a zero-length file. *)
(***************************************************************************)
\* the empty Go map
EmptyMap == [k \in {} |-> ""]
\* the Go map with the single entry k: v
One(k, v) == [x \in {k} |-> v]
Scal(x) == [t |-> "s", v |-> x]
List(x) == [t |-> "l", v |-> x]
Map(x) == [t |-> "m", v |-> x]
\* a mapping with a key that is not a string (8080: http): yaml.v3 decodes it
\* into map[interface{}]interface{}, which is not a map[string]any
AnyMap(x) == [t |-> "g", v |-> x]
\* the type assertion v.(map[string]any)
IsMap(n) == n.t = "m"

Raw(tree) == [form |-> "raw", tree |-> tree]
EmptyBytes == [form |-> "empty", tree |-> Map(EmptyMap)]
Len0(bytes) == bytes.form = "empty"

\* yaml.Unmarshal(content, &map[string]any): fails unless the top level is a mapping
UnmarshalOK(bytes) == IsMap(bytes.tree)
Unmarshal(bytes) == bytes.tree.v
\* yaml.Marshal(map): the canonical text of the tree
Marshal(m) == [form |-> "canon", tree |-> Map(m)]

\* Resolver.computeHash: lowercase hex SHA-256 of the content, modelled as an
\* injective tag of the content; the empty string (no hash yet) is EmptyHash
EmptyHash == [sha |-> FALSE, of |-> EmptyBytes]
computeHash(content) == [sha |-> TRUE, of |-> content]

(***************************************************************************)
(* Merger (internal/config/resolver.go, second part).                      *)
(***************************************************************************)
\* a faulty variant of deepMerge: sequences are concatenated
RECURSIVE deepMergeAppend(_, _)
deepMergeAppend(base, overlay) ==
  [k \in (DOMAIN base) \cup (DOMAIN overlay) |->
     IF k \in DOMAIN overlay
       THEN IF k \in DOMAIN base /\ IsMap(base[k]) /\ IsMap(overlay[k])
              THEN Map(deepMergeAppend(base[k].v, overlay[k].v))
            ELSE IF k \in DOMAIN base /\ base[k].t = "l" /\ overlay[k].t = "l"
              THEN List(base[k].v \o overlay[k].v)
              ELSE overlay[k]
       ELSE base[k]]

RECURSIVE deepMerge(_, _)
deepMerge(base, overlay) ==
  [k \in (DOMAIN base) \cup (DOMAIN overlay) |->
     IF k \in DOMAIN overlay
       THEN IF k \in DOMAIN base /\ IsMap(base[k]) /\ IsMap(overlay[k])
              THEN Map(deepMerge(base[k].v, overlay[k].v))
              ELSE overlay[k]
       ELSE base[k]]

MergeErr == [err |-> TRUE, bytes |-> EmptyBytes]
MergeOK(bytes) == [err |-> FALSE, bytes |-> bytes]

Merge(base, overlay) ==
  IF Len0(overlay) THEN MergeOK(base)
  ELSE IF Len0(base) THEN MergeOK(overlay)
  ELSE IF ~UnmarshalOK(base) \/ ~UnmarshalOK(overlay) THEN MergeErr
  ELSE MergeOK(Marshal(deepMerge(Unmarshal(base), Unmarshal(overlay))))

RECURSIVE MergeFrom(_, _, _)
MergeFrom(result, configs, i) ==
  IF i > Len(configs) THEN MergeOK(result)
  ELSE LET r == Merge(result, configs[i])
       IN IF r.err THEN MergeErr ELSE MergeFrom(r.bytes, configs, i + 1)

MergeMultiple(configs) ==
  IF Len(configs) = 0 THEN MergeOK(EmptyBytes)
  ELSE MergeFrom(configs[1], configs, 2)

(***************************************************************************)
(* Validator (non-strict mode, the default of cmd/server/main.go).         *)
(***************************************************************************)
HasList(m, k) == k \in DOMAIN m /\ m[k].t = "l" /\ Len(m[k].v) > 0
PipelineOK(p) == p.t = "m" /\ HasList(p.v, "receivers") /\ HasList(p.v, "exporters")

ValidateOTelConfig(content) ==
  /\ UnmarshalOK(content)
  /\ LET top == Unmarshal(content)
     IN /\ "service" \in DOMAIN top
        /\ IsMap(top["service"])
        /\ "pipelines" \in DOMAIN top["service"].v
        /\ IsMap(top["service"].v["pipelines"])
        /\ LET ps == top["service"].v["pipelines"].v
           IN DOMAIN ps # {} /\ \A n \in DOMAIN ps : PipelineOK(ps[n])

(***************************************************************************)
(* Selector matcher (internal/config/selector.go).                         *)
(***************************************************************************)
\* Go map lookup: a missing key reads as the empty string
Lookup(m, k) == IF k \in DOMAIN m THEN m[k] ELSE ""

\* a faulty variant of matchesSelector: no check for empty match criteria
matchesSelectorVacuous(labels, selector) ==
  \A key \in DOMAIN selector.match : Lookup(labels, key) = selector.match[key]

matchesSelector(labels, selector) ==
  /\ DOMAIN selector.match # {}
  /\ \A key \in DOMAIN selector.match : Lookup(labels, key) = selector.match[key]

NoSelector == [name |-> "", match |-> EmptyMap, config |-> "", overlay |-> ""]

\* index of the first matching selector, 0 when none matches
MatchIndex(selectors, labels) ==
  IF \E i \in 1..Len(selectors) : matchesSelector(labels, selectors[i])
    THEN CHOOSE i \in 1..Len(selectors) :
           /\ matchesSelector(labels, selectors[i])
           /\ \A j \in 1..(i - 1) : ~matchesSelector(labels, selectors[j])
    ELSE 0

Match(selectors, labels) ==
  LET i == MatchIndex(selectors, labels)
  IN IF i = 0 THEN NoSelector ELSE selectors[i]

\* SelectorMatcher.MatchAll: the matching selectors, in file order
MatchAll(selectors, labels) ==
  SelectSeq(selectors, LAMBDA selector : matchesSelector(labels, selector))

(***************************************************************************)
(* Resolver.Resolve.  The result is (config, error): kind "config" carries *)
(* an EffectiveConfig, kind "nil" is (nil, nil), kind "error" is an error. *)
(***************************************************************************)
ResNil == [kind |-> "nil", name |-> "", hash |-> EmptyHash, selector |-> "", err |-> ""]
\* (nil, fmt.Errorf(msg, ...))
ResErr(msg) ==
  [kind |-> "error", name |-> "", hash |-> EmptyHash, selector |-> "", err |-> msg]
ResConfig(name, content, sel) ==
  [kind |-> "config", name |-> name, hash |-> computeHash(content), selector |-> sel,
   err |-> ""]

\* a faulty variant of ConfigList: a named overlay that is missing takes the base
\* out of the merge as well
ConfigListNoBase(docs, selector) ==
  IF selector.overlay # "" /\ selector.overlay \notin DOMAIN docs.overlays
    THEN <<docs.agentConfigs[selector.config]>>
    ELSE (IF Len0(docs.baseConfig) THEN <<>> ELSE <<docs.baseConfig>>)
         \o (IF selector.overlay # "" THEN <<docs.overlays[selector.overlay]>> ELSE <<>>)
         \o <<docs.agentConfigs[selector.config]>>

\* the configs Resolve merges: base if non-empty, the overlay if named and
\* present, the agent config
ConfigList(docs, selector) ==
  (IF Len0(docs.baseConfig) THEN <<>> ELSE <<docs.baseConfig>>)
  \o (IF selector.overlay # "" /\ selector.overlay \in DOMAIN docs.overlays
        THEN <<docs.overlays[selector.overlay]>> ELSE <<>>)
  \o <<docs.agentConfigs[selector.config]>>

\* a faulty variant of Resolve: without a matching selector there is no config
ResolveNoBase(docs, labels) ==
  LET selector == Match(docs.selectors, labels)
  IN IF MatchIndex(docs.selectors, labels) = 0 THEN ResNil
     ELSE IF selector.config \notin DOMAIN docs.agentConfigs THEN ResErr("config not found")
     ELSE LET merged == MergeMultiple(ConfigList(docs, selector))
          IN IF merged.err THEN ResErr("failed to merge configs")
             ELSE IF ~ValidateOTelConfig(merged.bytes)
               THEN ResErr("merged config validation failed")
             ELSE ResConfig(selector.name, merged.bytes, selector.name)

\* a faulty variant of Resolve: a selector whose config is missing falls back to
\* the base document
ResolveFallback(docs, labels) ==
  LET selector == Match(docs.selectors, labels)
  IN IF MatchIndex(docs.selectors, labels) = 0
          \/ selector.config \notin DOMAIN docs.agentConfigs
       THEN IF Len0(docs.baseConfig) THEN ResNil
            ELSE ResConfig("base", docs.baseConfig, "")
     ELSE LET merged == MergeMultiple(ConfigList(docs, selector))
          IN IF merged.err THEN ResErr("failed to merge configs")
             ELSE IF ~ValidateOTelConfig(merged.bytes)
               THEN ResErr("merged config validation failed")
             ELSE ResConfig(selector.name, merged.bytes, selector.name)

Resolve(docs, labels) ==
  LET selector == Match(docs.selectors, labels)
  IN IF MatchIndex(docs.selectors, labels) = 0
       THEN IF Len0(docs.baseConfig) THEN ResNil
            ELSE ResConfig("base", docs.baseConfig, "")
     ELSE IF selector.config \notin DOMAIN docs.agentConfigs THEN ResErr("config not found")
     ELSE LET merged == MergeMultiple(ConfigList(docs, selector))
          IN IF merged.err THEN ResErr("failed to merge configs")
             ELSE IF ~ValidateOTelConfig(merged.bytes)
               THEN ResErr("merged config validation failed")
             ELSE ResConfig(selector.name, merged.bytes, selector.name)

(***************************************************************************)
(* The configuration repository: the working tree at each commit, and      *)
(* Resolver.LoadConfigs, which reads the tree into the resolver's fields.  *)
(***************************************************************************)
BaseDoc ==
  Raw(Map([exporters |-> Map([debug |-> Scal("basic")]),
           service |-> Map([pipelines |-> Map([traces |->
              Map([receivers |-> List(<<"otlp">>),
                   exporters |-> List(<<"debug">>)])])])]))
OverlayProd1 == Raw(Map([exporters |-> Map([debug |-> Scal("detailed")])]))
OverlayProd2 == Raw(Map([exporters |-> Map([otlphttp |-> Scal("prod")])]))
AgentK8s ==
  Raw(Map([receivers |-> Map([k8s |-> Scal("cluster")]),
           service |-> Map([pipelines |-> Map([traces |->
              Map([receivers |-> List(<<"otlp", "k8s">>)])])])]))
AgentBroken == Raw(Map([service |-> Scal("off")]))

SelK8s == [name |-> "kubernetes", match |-> [role |-> "k8s"],
           config |-> "k8s.yaml", overlay |-> "production"]
SelProd == [name |-> "prod", match |-> [env |-> "prod"],
            config |-> "prod.yaml", overlay |-> ""]

\* a working tree: which files exist and what they hold
Tree(hasBase, base, overlays, agents, hasSel, selOK, selectors) ==
  [hasBase |-> hasBase, base |-> base, overlays |-> overlays, agents |-> agents,
   hasSelectors |-> hasSel, selectorsParse |-> selOK, selectors |-> selectors]

Commits ==
  << Tree(TRUE, BaseDoc, [production |-> OverlayProd1], One("k8s.yaml", AgentK8s),
          TRUE, TRUE, <<SelK8s>>),
     Tree(TRUE, BaseDoc, [production |-> OverlayProd2], One("k8s.yaml", AgentK8s),
          TRUE, TRUE, <<SelK8s, SelProd>>),
     Tree(TRUE, BaseDoc, [production |-> OverlayProd2], One("k8s.yaml", AgentBroken),
          TRUE, TRUE, <<SelK8s>>),
     Tree(FALSE, EmptyBytes, EmptyMap, One("k8s.yaml", AgentK8s),
          TRUE, FALSE, <<>>),
     Tree(FALSE, EmptyBytes, EmptyMap, One("k8s.yaml", AgentK8s),
          TRUE, TRUE, <<SelK8s>>) >>
\* the commits the branch at origin can point to
Revisions == DOMAIN Commits

\* NewResolver: no base, empty maps, no selectors
NewResolver ==
  [baseConfig |-> EmptyBytes, overlays |-> EmptyMap, agentConfigs |-> EmptyMap,
   selectors |-> <<>>]

\* entries of a Go map after assigning every entry of new into old
Assign(old, new) ==
  [k \in (DOMAIN old) \cup (DOMAIN new) |-> IF k \in DOMAIN new THEN new[k] ELSE old[k]]

LoadConfigs(d, tree) ==
  LET loaded == [baseConfig |-> IF tree.hasBase THEN tree.base ELSE d.baseConfig,
                 overlays |-> Assign(d.overlays, tree.overlays),
                 agentConfigs |-> Assign(d.agentConfigs, tree.agents),
                 selectors |-> d.selectors]
  IN IF tree.hasSelectors /\ ~tree.selectorsParse
       THEN [docs |-> loaded, err |-> TRUE]
     ELSE IF tree.hasSelectors
       THEN [docs |-> [loaded EXCEPT !.selectors = tree.selectors], err |-> FALSE]
     ELSE [docs |-> loaded, err |-> FALSE]

(***************************************************************************)
(* State.                                                                  *)
(***************************************************************************)
VARIABLES
  registry,     \* agents table of the SQLite registry: instance_uid -> row
  connections,  \* Server.connections (sync.Map): instance_uid -> connection
  conn,         \* per connection: transport state and position of its callback
  push,         \* position of the PushConfigToAgent / PushConfigToAll call in progress
  docs,         \* fields of the Resolver: baseConfig, overlays, agentConfigs, selectors
  head,         \* commit checked out in the working tree (index into Commits)
  handlers,     \* SQLiteRegistry.handlers: ids of the subscribed event handlers
  delivered,    \* per agent: config hash of the last remote_config it received
  reported,     \* per agent: hash carried by its most recent apply report
  syncer,       \* fields of the Syncer, its goroutines, and the branch at origin
  load,         \* position of the LoadConfigs call that holds Resolver.mu
  now,          \* the reading of the clock (time.Now) the registry stamps rows with
  apply,        \* the UpdateAgentConfigStatus call that is between its UPDATE and its GetAgent
  out           \* what the last step returned, sent and emitted

vars == <<registry, connections, conn, push, docs, head, handlers, delivered, reported,
          syncer, load, now, apply, out>>

\* a row of the agents table; present = FALSE is "no row" (GetAgent returns nil)
NoAgent ==
  [present |-> FALSE, status |-> "", desc |-> EmptyMap, labels |-> EmptyMap,
   hash |-> EmptyHash, cfg |-> "", err |-> "", seen |-> 0, caps |-> 0]

NoDesc == [present |-> FALSE, attrs |-> EmptyMap]
NoReport == [present |-> FALSE, hash |-> EmptyHash, status |-> "UNSET", err |-> ""]
NoMsg == [uid |-> "", desc |-> NoDesc, report |-> NoReport, caps |-> 0]

\* identifying attributes an agent can describe itself with
Descs == {[present |-> TRUE, attrs |-> [role |-> "k8s"]],
          [present |-> TRUE, attrs |-> [env |-> "prod"]]}
RemoteConfigStatuses == {"UNSET", "APPLIED", "APPLYING", "FAILED"}
\* AgentToServer.capabilities of the agents: ReportsStatus | AcceptsRemoteConfig
AgentCapabilities == 3
\* the apply reports agent uid can send: it echoes the hash it last received
Reports(uid, statuses) ==
  {[present |-> TRUE, hash |-> delivered[uid], status |-> st,
    err |-> IF st = "FAILED" THEN "bad exporter" ELSE ""] : st \in statuses}
\* AgentToServer messages: instance UID, optional description, optional apply report
MessagesWith(uids, descs, statuses) ==
  UNION {{[uid |-> u, desc |-> d, report |-> r, caps |-> AgentCapabilities] :
            d \in descs \cup {NoDesc}, r \in Reports(u, statuses) \cup {NoReport}} : u \in uids}
Messages(uids) == MessagesWith(uids, Descs, RemoteConfigStatuses)
\* the messages of agents that always describe themselves the same way
PlainMessages(uids) ==
  MessagesWith(uids, {[present |-> TRUE, attrs |-> [role |-> "k8s"]]}, {"APPLIED"})

(***************************************************************************)
(* Registry (internal/registry/sqlite.go).  Each operation maps the table  *)
(* to the new table, the error it returns and the events it emits.         *)
(***************************************************************************)
RegOut(reg, err, ev) == [reg |-> reg, err |-> err, ev |-> ev]

\* the ids Subscribe gives to handlers
HandlerIDs == 1..MaxHandlers

\* no UpdateAgentConfigStatus call is between its two statements
NoApply == [pc |-> "idle", uid |-> "", status |-> ""]

\* a faulty variant of configEvent: only applied counts as config_applied
configEventByStatus(status) ==
  IF status = "failed" THEN "config_failed"
  ELSE IF status = "applied" THEN "config_applied"
  ELSE "agent_updated"

\* UpdateAgentConfigStatus: the type of the event it emits
configEvent(status) == IF status = "failed" THEN "config_failed" ELSE "config_applied"

\* SQLiteRegistry.emit: one delivery to every handler subscribed at that moment
emit(type, uid) == <<[type |-> type, uid |-> uid, to |-> handlers]>>

\* a faulty variant of RegisterAgent: on conflict every column is overwritten
RegisterAgentReplace(reg, uid, agent) ==
  RegOut([reg EXCEPT ![uid] = [agent EXCEPT !.present = TRUE, !.seen = now]],
         FALSE, emit("agent_connected", uid))

\* INSERT ... ON CONFLICT(instance_uid) DO UPDATE SET agent_description, labels,
\* status, last_seen, capabilities (and updated_at); last_seen is time.Now()
RegisterAgent(reg, uid, agent) ==
  RegOut([reg EXCEPT ![uid] =
            IF reg[uid].present
              THEN [reg[uid] EXCEPT !.desc = agent.desc, !.labels = agent.labels,
                                    !.status = agent.status, !.seen = now,
                                    !.caps = agent.caps]
              ELSE [agent EXCEPT !.present = TRUE, !.seen = now]],
         FALSE, emit("agent_connected", uid))

UpdateAgent(reg, uid, agent) ==
  IF ~reg[uid].present THEN RegOut(reg, TRUE, <<>>)
  ELSE RegOut([reg EXCEPT ![uid] = [agent EXCEPT !.present = TRUE]],
              FALSE, emit("agent_updated", uid))

GetAgent(reg, uid) == reg[uid]

DeleteAgent(reg, uid) ==
  IF ~reg[uid].present THEN RegOut(reg, TRUE, <<>>)
  ELSE RegOut([reg EXCEPT ![uid] = NoAgent], FALSE, <<>>)

\* a faulty variant of UpdateAgentStatus: a disconnected agent loses its row
UpdateAgentStatusReap(reg, uid, status) ==
  IF ~reg[uid].present THEN RegOut(reg, TRUE, <<>>)
  ELSE IF status = "disconnected"
    THEN RegOut([reg EXCEPT ![uid] = NoAgent], FALSE, emit("agent_disconnected", uid))
  ELSE RegOut([reg EXCEPT ![uid].status = status, ![uid].seen = now], FALSE,
              emit("agent_connected", uid))

UpdateAgentStatus(reg, uid, status) ==
  IF ~reg[uid].present THEN RegOut(reg, TRUE, <<>>)
  ELSE RegOut([reg EXCEPT ![uid].status = status, ![uid].seen = now], FALSE,
              emit(IF status = "disconnected" THEN "agent_disconnected"
                   ELSE IF status = "connected" THEN "agent_connected"
                   ELSE "agent_updated", uid))

UpdateAgentConfigStatus(reg, uid, configHash, status) ==
  IF ~reg[uid].present THEN RegOut(reg, TRUE, <<>>)
  ELSE RegOut([reg EXCEPT ![uid].hash = configHash, ![uid].cfg = status], FALSE,
              emit(configEvent(status), uid))

\* UPDATE agents SET last_seen, updated_at WHERE instance_uid: the number of rows
\* affected is not looked at, so a missing row is not an error
RecordHeartbeat(reg, uid) ==
  IF ~reg[uid].present THEN RegOut(reg, FALSE, <<>>)
  ELSE RegOut([reg EXCEPT ![uid].seen = now], FALSE, <<>>)

(***************************************************************************)
(* Session layer (internal/opamp/server.go, the handleMessage variant).    *)
(***************************************************************************)
\* Server.agentFromMessage, with Status set to connected by the caller
agentFromMessage(msg) ==
  [present |-> TRUE, status |-> "connected", desc |-> msg.desc.attrs,
   labels |-> msg.desc.attrs, hash |-> EmptyHash, cfg |-> "", err |-> "",
   seen |-> 0, caps |-> msg.caps]

\* a faulty variant of the switch: APPLIED falls through to the default branch
ConfigStatusOfDefault(st) ==
  CASE st = "APPLYING" -> "pending"
    [] st = "FAILED" -> "failed"
    [] OTHER -> "unknown"

\* the switch of handleRemoteConfigStatus
ConfigStatusOf(st) ==
  CASE st = "APPLIED" -> "applied"
    [] st = "APPLYING" -> "pending"
    [] st = "FAILED" -> "failed"
    [] OTHER -> "unknown"

handleRemoteConfigStatus(reg, uid, report) ==
  UpdateAgentConfigStatus(reg, uid, report.hash, ConfigStatusOf(report.status))

\* handleAgentDescription after its GetAgent: the row read (agent) gets the new
\* description, its labels get the identifying attributes, and is written back whole
descriptionWrite(reg, uid, agent, desc) ==
  UpdateAgent(reg, uid, [agent EXCEPT !.desc = desc.attrs,
                                      !.labels = Assign(agent.labels, desc.attrs)])

NoReply == [hasConfig |-> FALSE, hash |-> EmptyHash]

\* a faulty variant of configUpdate: it replies with the config but leaves the row alone
configUpdateUnrecorded(reg, uid) ==
  LET agent == GetAgent(reg, uid)
      eff == Resolve(docs, agent.labels)
  IN IF ~agent.present \/ eff.kind # "config" \/ eff.hash = agent.hash
       THEN [reg |-> reg, ev |-> <<>>, reply |-> NoReply]
       ELSE [reg |-> reg, ev |-> <<>>, reply |-> [hasConfig |-> TRUE, hash |-> eff.hash]]

\* a faulty variant of configUpdate: the config is sent whether or not its hash
\* is the one the row already holds
configUpdateAlways(reg, uid) ==
  LET agent == GetAgent(reg, uid)
      eff == Resolve(docs, agent.labels)
  IN IF ~agent.present \/ eff.kind # "config"
       THEN [reg |-> reg, ev |-> <<>>, reply |-> NoReply]
       ELSE LET u == UpdateAgentConfigStatus(reg, uid, eff.hash, "pending")
            IN [reg |-> u.reg, ev |-> u.ev,
                reply |-> [hasConfig |-> TRUE, hash |-> eff.hash]]

\* handleMessage from "Check if agent needs config update" to its return
configUpdate(reg, uid) ==
  LET agent == GetAgent(reg, uid)
      eff == Resolve(docs, agent.labels)
  IN IF ~agent.present \/ eff.kind # "config" \/ eff.hash = agent.hash
       THEN [reg |-> reg, ev |-> <<>>, reply |-> NoReply]
       ELSE LET u == UpdateAgentConfigStatus(reg, uid, eff.hash, "pending")
            IN [reg |-> u.reg, ev |-> u.ev,
                reply |-> [hasConfig |-> TRUE, hash |-> eff.hash]]

\* handleMessage from "Handle remote config status" to its return
statusAndConfig(reg, uid, msg) ==
  LET r == IF msg.report.present THEN handleRemoteConfigStatus(reg, uid, msg.report)
           ELSE RegOut(reg, FALSE, <<>>)
      c == configUpdate(r.reg, uid)
  IN [reg |-> c.reg, ev |-> r.ev \o c.ev, reply |-> c.reply]

Idle(st) == [st |-> st, uid |-> "", msg |-> NoMsg, snap |-> NoAgent]

\* what a step hands back to its caller and to the event handlers
NoOut == [kind |-> "none", uid |-> "", report |-> NoReport, reply |-> NoReply,
          lost |-> FALSE, ev |-> <<>>]
Out(kind, uid, report, reply, lost, ev) ==
  [kind |-> kind, uid |-> uid, report |-> report, reply |-> reply, lost |-> lost, ev |-> ev]

\* the first step of handleMessage: session table check, RegisterAgent, heartbeat
firstContact(c, msg) ==
  LET r == IF connections[msg.uid] # NoConn THEN RegOut(registry, FALSE, <<>>)
           ELSE RegisterAgent(registry, msg.uid, agentFromMessage(msg))
  IN RegOut(RecordHeartbeat(r.reg, msg.uid).reg, FALSE, r.ev)

\* connections.Store when connections.Load found no entry
storeConn(c, msg) ==
  IF connections[msg.uid] = NoConn THEN [connections EXCEPT ![msg.uid] = c] ELSE connections

\* handleAgentDescription: GetAgent, then UpdateAgent of the row read
handleAgentDescription(reg, uid, desc) ==
  IF ~GetAgent(reg, uid).present THEN RegOut(reg, FALSE, <<>>)
  ELSE descriptionWrite(reg, uid, GetAgent(reg, uid), desc)

\* a faulty variant of Return: the callback ends without handing back a reply
ReturnSilent(c, msg, res, ev, lost) ==
  /\ registry' = res.reg
  /\ conn' = [conn EXCEPT ![c] = Idle(IF lost THEN "broken" ELSE "open")]
  /\ UNCHANGED <<delivered, reported>>
  /\ out' = Out("none", "", NoReport, NoReply, lost, ev \o res.ev)

\* handleMessage returns: the reply goes out on c; when the transport has failed
\* meanwhile the reply is lost and the connection is found broken
Return(c, msg, res, ev, lost) ==
  /\ registry' = res.reg
  /\ conn' = [conn EXCEPT ![c] = Idle(IF lost THEN "broken" ELSE "open")]
  /\ delivered' = IF res.reply.hasConfig /\ ~lost
                    THEN [delivered EXCEPT ![msg.uid] = res.reply.hash]
                    ELSE delivered
  /\ reported' = IF msg.report.present
                   THEN [reported EXCEPT ![msg.uid] = msg.report.hash]
                   ELSE reported
  /\ out' = Out("reply", msg.uid, msg.report, res.reply, lost, ev \o res.ev)

\* handleMessage on connection c: the whole callback
HandleMessage(c, msg, lost) ==
  /\ conn[c].st = "open"
  /\ LET f == firstContact(c, msg)
         d == IF msg.desc.present THEN handleAgentDescription(f.reg, msg.uid, msg.desc)
              ELSE RegOut(f.reg, FALSE, <<>>)
     IN /\ connections' = storeConn(c, msg)
        /\ Return(c, msg, statusAndConfig(d.reg, msg.uid, msg), f.ev \o d.ev, lost)
  /\ UNCHANGED <<push, docs, head, handlers, now, apply, syncer, load>>

\* handleMessage up to and including the GetAgent of handleAgentDescription
HandleMessageRead(c, msg) ==
  /\ conn[c].st = "open"
  /\ LET f == firstContact(c, msg)
     IN /\ msg.desc.present /\ f.reg[msg.uid].present
        /\ connections' = storeConn(c, msg)
        /\ registry' = f.reg
        /\ conn' = [conn EXCEPT ![c] = [st |-> "desc", uid |-> msg.uid, msg |-> msg,
                                        snap |-> GetAgent(f.reg, msg.uid)]]
        /\ out' = Out("read", msg.uid, NoReport, NoReply, FALSE, f.ev)
  /\ UNCHANGED <<push, docs, head, handlers, now, apply, syncer, load, delivered, reported>>

\* the UpdateAgent of handleAgentDescription, writing back the row read earlier
HandleMessageWrite(c) ==
  /\ conn[c].st = "desc"
  /\ LET w == descriptionWrite(registry, conn[c].uid, conn[c].snap, conn[c].msg.desc)
     IN /\ registry' = w.reg
        /\ out' = Out("written", conn[c].uid, NoReport, NoReply, FALSE, w.ev)
  /\ conn' = [conn EXCEPT ![c].st = "rest", ![c].snap = NoAgent]
  /\ UNCHANGED <<connections, push, docs, head, handlers, now, apply, syncer, load, delivered, reported>>

\* handleMessage from "Handle remote config status" to its return
HandleMessageRest(c, lost) ==
  /\ conn[c].st = "rest"
  /\ LET msg == conn[c].msg
     IN Return(c, msg, statusAndConfig(registry, msg.uid, msg), <<>>, lost)
  /\ UNCHANGED <<connections, push, docs, head, handlers, now, apply, syncer, load>>

\* a new transport connection is accepted (OnConnecting); the identity c is not
\* that of any connection the server still refers to
Connect(c) ==
  /\ conn[c].st = "free"
  /\ \A u \in AllUIDs : connections[u] # c
  /\ push.conn # c /\ \A e \in push.todo : e[2] # c
  /\ conn' = [conn EXCEPT ![c] = Idle("open")]
  /\ out' = NoOut
  /\ UNCHANGED <<registry, connections, push, docs, head, handlers, now, apply, syncer, load, delivered, reported>>

\* the transport of c fails or the agent goes away
Break(c) ==
  /\ conn[c].st = "open"
  /\ conn' = [conn EXCEPT ![c] = Idle("broken")]
  /\ out' = NoOut
  /\ UNCHANGED <<registry, connections, push, docs, head, handlers, now, apply, syncer, load, delivered, reported>>

\* a faulty variant of CloseDelete: the entry found is left in the session table
CloseDeleteKeep(c) ==
  /\ conn[c].st = "broken"
  /\ IF \E u \in AllUIDs : connections[u] = c
       THEN \E u \in AllUIDs :
              /\ connections[u] = c
              /\ conn' = [conn EXCEPT ![c] = [Idle("closing") EXCEPT !.uid = u]]
       ELSE conn' = [conn EXCEPT ![c] = Idle("free")]
  /\ out' = Out("close", "", NoReport, NoReply, FALSE, <<>>)
  /\ UNCHANGED <<registry, connections, push, docs, head, handlers, now, apply, syncer, load,
                 delivered, reported>>

\* handleConnectionClose up to connections.Delete: Range finds an entry that holds c
CloseDelete(c) ==
  /\ conn[c].st = "broken"
  /\ IF \E u \in AllUIDs : connections[u] = c
       THEN \E u \in AllUIDs :
              /\ connections[u] = c
              /\ connections' = [connections EXCEPT ![u] = NoConn]
              /\ conn' = [conn EXCEPT ![c] = [Idle("closing") EXCEPT !.uid = u]]
       ELSE /\ conn' = [conn EXCEPT ![c] = Idle("free")]
            /\ UNCHANGED connections
  /\ out' = Out("close", "", NoReport, NoReply, FALSE, <<>>)
  /\ UNCHANGED <<registry, push, docs, head, handlers, now, apply, syncer, load, delivered, reported>>

\* a faulty variant of CloseStatus: every row is set to disconnected
CloseStatusEvery(c) ==
  /\ conn[c].st = "closing"
  /\ registry' = [u \in AllUIDs |-> UpdateAgentStatus(registry, u, "disconnected").reg[u]]
  /\ out' = Out("closed", conn[c].uid, NoReport, NoReply, FALSE, <<>>)
  /\ conn' = [conn EXCEPT ![c] = Idle("free")]
  /\ UNCHANGED <<connections, push, docs, head, handlers, now, apply, syncer, load, delivered, reported>>

\* handleConnectionClose: UpdateAgentStatus(disconnected) and return
CloseStatus(c) ==
  /\ conn[c].st = "closing"
  /\ LET r == UpdateAgentStatus(registry, conn[c].uid, "disconnected")
     IN /\ registry' = r.reg
        /\ out' = Out("closed", conn[c].uid, NoReport, NoReply, FALSE, r.ev)
  /\ conn' = [conn EXCEPT ![c] = Idle("free")]
  /\ UNCHANGED <<connections, push, docs, head, handlers, now, apply, syncer, load, delivered, reported>>

(***************************************************************************)
(* Out-of-band push: PushConfigToAgent, PushConfigToAll, sendConfigToAgent.*)
(***************************************************************************)
NoPush == [pc |-> "idle", todo |-> {}, uid |-> "", conn |-> NoConn, hash |-> EmptyHash]

\* what the push does after finishing with one agent: the next entry of Range, or return
pushContinue(todo) ==
  IF todo = {} THEN NoPush ELSE [NoPush EXCEPT !.pc = "range", !.todo = todo]

\* a faulty variant of sendConfigToAgent: only a nil config stops the send
sendConfigToAgentBlind(agent, uid, c, todo) ==
  LET eff == Resolve(docs, agent.labels)
  IN IF eff.kind = "nil" THEN pushContinue(todo)
     ELSE [pc |-> "send", todo |-> todo, uid |-> uid, conn |-> c, hash |-> eff.hash]

\* sendConfigToAgent up to conn.Send: the configProvider call on the row read
sendConfigToAgent(agent, uid, c, todo) ==
  LET eff == Resolve(docs, agent.labels)
  IN IF eff.kind # "config" THEN pushContinue(todo)
     ELSE [pc |-> "send", todo |-> todo, uid |-> uid, conn |-> c, hash |-> eff.hash]

\* a faulty variant of PushConfigToAgent: without a session-table entry it goes
\* on with the first connection
PushConfigToAgentAnyway(uid) ==
  /\ push.pc = "idle"
  /\ LET agent == GetAgent(registry, uid)
         c == IF connections[uid] = NoConn THEN ConnNames[1] ELSE connections[uid]
     IN push' = IF ~agent.present THEN NoPush ELSE sendConfigToAgent(agent, uid, c, {})
  /\ out' = Out("push", uid, NoReport, NoReply, FALSE, <<>>)
  /\ UNCHANGED <<registry, connections, conn, docs, head, handlers, now, apply, syncer, load, delivered, reported>>

PushConfigToAgent(uid) ==
  /\ push.pc = "idle"
  /\ LET agent == GetAgent(registry, uid)
     IN push' = IF ~agent.present \/ connections[uid] = NoConn THEN NoPush
                ELSE sendConfigToAgent(agent, uid, connections[uid], {})
  /\ out' = Out("push", uid, NoReport, NoReply, FALSE, <<>>)
  /\ UNCHANGED <<registry, connections, conn, docs, head, handlers, now, apply, syncer, load, delivered, reported>>

\* the entries connections.Range will visit
rangeEntries == {<<u, connections[u]>> : u \in {v \in AllUIDs : connections[v] # NoConn}}

PushConfigToAll ==
  /\ push.pc = "idle"
  /\ push' = pushContinue(rangeEntries)
  /\ out' = Out("pushall", "", NoReport, NoReply, FALSE, <<>>)
  /\ UNCHANGED <<registry, connections, conn, docs, head, handlers, now, apply, syncer, load, delivered, reported>>

\* one iteration of the Range callback of PushConfigToAll, up to conn.Send
PushRange ==
  /\ push.pc = "range"
  /\ \E e \in push.todo :
       LET agent == GetAgent(registry, e[1])
       IN push' = IF ~agent.present THEN pushContinue(push.todo \ {e})
                  ELSE sendConfigToAgent(agent, e[1], e[2], push.todo \ {e})
  /\ out' = NoOut
  /\ UNCHANGED <<registry, connections, conn, docs, head, handlers, now, apply, syncer, load, delivered, reported>>

\* conn.Send on an open connection: the agent receives the remote_config
PushSend ==
  /\ push.pc = "send"
  /\ conn[push.conn].st \in {"open", "desc", "rest"}
  /\ push' = [push EXCEPT !.pc = "mark"]
  /\ delivered' = [delivered EXCEPT ![push.uid] = push.hash]
  /\ out' = Out("sent", push.uid, NoReport,
                [hasConfig |-> TRUE, hash |-> push.hash], FALSE, <<>>)
  /\ UNCHANGED <<registry, connections, conn, docs, head, handlers, now, apply, syncer, load, reported>>

\* conn.Send on a connection that has closed: it returns an error and
\* sendConfigToAgent returns
PushSendFail ==
  /\ push.pc = "send"
  /\ conn[push.conn].st \notin {"open", "desc", "rest"}
  /\ push' = pushContinue(push.todo)
  /\ out' = Out("sendfailed", push.uid, NoReport,
                [hasConfig |-> TRUE, hash |-> push.hash], TRUE, <<>>)
  /\ UNCHANGED <<registry, connections, conn, docs, head, handlers, now, apply, syncer, load, delivered, reported>>

\* sendConfigToAgent after a successful Send: UpdateAgentConfigStatus(pending)
PushMark ==
  /\ push.pc = "mark"
  /\ LET r == UpdateAgentConfigStatus(registry, push.uid, push.hash, "pending")
     IN /\ registry' = r.reg
        /\ out' = Out("marked", push.uid, NoReport,
                      [hasConfig |-> TRUE, hash |-> push.hash], FALSE, r.ev)
  /\ push' = pushContinue(push.todo)
  /\ UNCHANGED <<connections, conn, docs, head, handlers, now, apply, syncer, load, delivered, reported>>

(***************************************************************************)
(* The sync callback registered in cmd/server/main.go: the working tree    *)
(* has moved to the next commit; reload, then push to all.                 *)
(***************************************************************************)
OnSync ==
  /\ head < MaxCommits
  /\ push.pc = "idle"
  /\ head' = head + 1
  /\ LET l == LoadConfigs(docs, Commits[head + 1])
     IN /\ docs' = l.docs
        /\ push' = IF l.err THEN NoPush ELSE pushContinue(rangeEntries)
        /\ out' = Out(IF l.err THEN "reloadfailed" ELSE "reloaded",
                      "", NoReport, NoReply, FALSE, <<>>)
  /\ UNCHANGED <<registry, connections, conn, handlers, now, apply, syncer, load, delivered, reported>>

\* DELETE /api/v1/agents/{id}
AdminDelete(uid) ==
  /\ registry[uid].present
  /\ registry' = DeleteAgent(registry, uid).reg
  /\ out' = Out("deleted", uid, NoReport, NoReply, FALSE, <<>>)
  /\ UNCHANGED <<connections, conn, push, docs, head, handlers, now, apply, syncer, load, delivered, reported>>

(***************************************************************************)
(* Git syncer (gitsync.Syncer) and the callback cmd/server/main.go         *)
(* registers on it.  Sync holds Syncer.mu from entry to return, so it is   *)
(* one step; each notifyCallbacks goroutine it starts runs on its own.     *)
(***************************************************************************)
\* a slot for a notifyCallbacks goroutine: none running
NoGo == [pc |-> "free", commit |-> 0, err |-> FALSE]

\* NewSyncer: nothing observed yet (lastCommit ""), channels open, no loop; main
\* registers one callback.  mu: the goroutines that hold Syncer.mu for reading (the
\* write lock is taken and released within one step)
NewSyncer(pollInterval) ==
  [pollInterval |-> pollInterval, started |-> FALSE, remote |-> 1, lastCommit |-> 0,
   go |-> [i \in 1..MaxNotify |-> NoGo], mu |-> {}, callbacks |-> 1,
   loop |-> "none", stopCh |-> "open", doneCh |-> "open", ctx |-> "live", stop |-> "idle"]

\* poll intervals of the configuration: none, or some positive duration
PollIntervals == {0, 1}

\* a faulty variant of changed: every sync counts as a new commit
changedAlways(s, commitHash) == TRUE

\* Sync: "Check if commit changed"
changed(s, commitHash) == commitHash # s.lastCommit

\* Sync after a successful clone or pull that observed commitHash: lastCommit is
\* set and a notifyCallbacks goroutine started in slot i when the commit changed
synced(s, commitHash, i) ==
  IF changed(s, commitHash)
    THEN [s EXCEPT !.lastCommit = commitHash,
                   !.go[i] = [pc |-> "notify", commit |-> commitHash, err |-> FALSE]]
    ELSE s

\* the slot the next goroutine takes (0: every slot is taken)
FreeSlot(s) ==
  IF \E i \in 1..MaxNotify : s.go[i].pc = "free"
    THEN CHOOSE i \in 1..MaxNotify :
           s.go[i].pc = "free" /\ \A j \in 1..(i - 1) : s.go[j].pc # "free"
    ELSE 0

\* someone pushes the next commit to the branch at origin
Commit ==
  /\ syncer.remote + 1 \in Revisions
  /\ syncer' = [syncer EXCEPT !.remote = @ + 1]
  /\ out' = NoOut
  /\ UNCHANGED <<registry, connections, conn, push, docs, head, handlers, now, apply, delivered,
                 reported, load>>

\* Syncer.mu.Lock returns once no goroutine holds the read lock
Lock(s) == s.mu = {}

\* a faulty variant of Sync: lastCommit is set to the commit at origin before the
\* clone or pull has succeeded
SyncCallEager(ok) ==
  /\ Lock(syncer)
  /\ ok => (changed(syncer, syncer.remote) => FreeSlot(syncer) # 0)
  /\ IF ok
       THEN /\ head' = syncer.remote
            /\ syncer' = synced(syncer, syncer.remote, FreeSlot(syncer))
            /\ load' = [load EXCEPT !.moved = @ \/ (load.pc # "idle" /\ head' # head)]
       ELSE /\ syncer' = [syncer EXCEPT !.lastCommit = syncer.remote]
            /\ UNCHANGED <<head, load>>
  /\ out' = Out(IF ok THEN "synced" ELSE "syncfailed", "", NoReport, NoReply, FALSE, <<>>)
  /\ UNCHANGED <<registry, connections, conn, push, docs, handlers, now, apply, delivered, reported>>

\* Syncer.Sync, whole.  ok: the clone or pull succeeds (already up to date
\* included) and the working tree is at the commit of origin
SyncCall(ok) ==
  /\ Lock(syncer)
  /\ ok => (changed(syncer, syncer.remote) => FreeSlot(syncer) # 0)
  /\ IF ok
       THEN /\ head' = syncer.remote
            /\ syncer' = synced(syncer, syncer.remote, FreeSlot(syncer))
            /\ load' = [load EXCEPT !.moved = @ \/ (load.pc # "idle" /\ head' # head)]
       ELSE UNCHANGED <<head, syncer, load>>
  /\ out' = Out(IF ok THEN "synced" ELSE "syncfailed", "", NoReport, NoReply, FALSE, <<>>)
  /\ UNCHANGED <<registry, connections, conn, push, docs, handlers, now, apply, delivered, reported>>

\* Sync called by the webhook or by POST /api/v1/sync
Sync(ok) == SyncCall(ok)

\* Syncer.Start: the initial Sync, then the poll loop when an interval is set
Start(ok) ==
  /\ ~syncer.started
  /\ Lock(syncer)
  /\ ok => FreeSlot(syncer) # 0
  /\ IF ok
       THEN /\ head' = syncer.remote
            /\ syncer' = [synced(syncer, syncer.remote, FreeSlot(syncer)) EXCEPT
                            !.started = TRUE,
                            !.loop = IF syncer.pollInterval > 0 THEN "running" ELSE "none"]
       ELSE UNCHANGED <<head, syncer>>
  /\ out' = Out(IF ok THEN "started" ELSE "startfailed", "", NoReport, NoReply, FALSE, <<>>)
  /\ UNCHANGED <<registry, connections, conn, push, docs, handlers, now, apply, delivered, reported,
                 load>>

\* pollLoop: the ticker fires and the loop calls Sync
Tick(ok) ==
  /\ syncer.loop = "running"
  /\ SyncCall(ok)

\* the context handed to Start is cancelled
Cancel ==
  /\ syncer.ctx = "live"
  /\ syncer' = [syncer EXCEPT !.ctx = "done"]
  /\ out' = NoOut
  /\ UNCHANGED <<registry, connections, conn, push, docs, head, handlers, now, apply, delivered,
                 reported, load>>

\* pollLoop returns on ctx.Done() or stopCh, and its deferred close(doneCh) runs
LoopExit ==
  /\ syncer.loop = "running"
  /\ syncer.ctx = "done" \/ syncer.stopCh = "closed"
  /\ syncer' = [syncer EXCEPT !.loop = "exited", !.doneCh = "closed"]
  /\ out' = NoOut
  /\ UNCHANGED <<registry, connections, conn, push, docs, head, handlers, now, apply, delivered,
                 reported, load>>

\* Syncer.Stop: close(stopCh), then the receive from doneCh begins
StopCall ==
  /\ syncer.started
  /\ syncer.stop = "idle"
  /\ syncer' = [syncer EXCEPT !.stopCh = "closed", !.stop = "waiting"]
  /\ out' = NoOut
  /\ UNCHANGED <<registry, connections, conn, push, docs, head, handlers, now, apply, delivered,
                 reported, load>>

\* Syncer.Stop: the receive from doneCh completes once doneCh is closed
StopReturn ==
  /\ syncer.stop = "waiting"
  /\ syncer.doneCh = "closed"
  /\ syncer' = [syncer EXCEPT !.stop = "returned"]
  /\ out' = NoOut
  /\ UNCHANGED <<registry, connections, conn, push, docs, head, handlers, now, apply, delivered,
                 reported, load>>

\* a faulty variant of afterReload: the callback goes on to push whatever
\* LoadConfigs returned
afterReloadAnyway(err) == "push"

\* the sync callback after resolver.LoadConfigs(): return the error, or go on
\* to PushConfigToAll
afterReload(err) == IF err THEN "failed" ELSE "push"

\* notifyCallbacks calls the callback, which runs resolver.LoadConfigs()
CallbackReload(i) ==
  /\ syncer.go[i].pc = "notify"
  /\ load.pc = "idle"
  /\ LET l == LoadConfigs(docs, Commits[head])
     IN /\ docs' = l.docs
        /\ syncer' = [syncer EXCEPT !.go[i].pc = afterReload(l.err), !.go[i].err = l.err]
        /\ load' = [load EXCEPT !.old = docs, !.new = l.docs, !.err = l.err,
                                !.moved = FALSE]
        /\ out' = Out(IF l.err THEN "reloadfailed" ELSE "reloaded",
                      "", NoReport, NoReply, FALSE, <<>>)
  /\ UNCHANGED <<registry, connections, conn, push, head, handlers, now, apply, delivered, reported>>

\* the callback calls PushConfigToAll and returns nil
CallbackPush(i) ==
  /\ syncer.go[i].pc = "push"
  /\ push.pc = "idle"
  /\ push' = pushContinue(rangeEntries)
  /\ syncer' = [syncer EXCEPT !.go[i] = NoGo]
  /\ out' = Out("pushall", "", NoReport, NoReply, FALSE, <<>>)
  /\ UNCHANGED <<registry, connections, conn, docs, head, handlers, now, apply, delivered, reported,
                 load>>

\* the callback returns the error of LoadConfigs; notifyCallbacks logs it
CallbackFail(i) ==
  /\ syncer.go[i].pc = "failed"
  /\ syncer' = [syncer EXCEPT !.go[i] = NoGo]
  /\ out' = Out("callbackfailed", "", NoReport, NoReply, FALSE, <<>>)
  /\ UNCHANGED <<registry, connections, conn, push, docs, head, handlers, now, apply, delivered,
                 reported, load>>

(***************************************************************************)
(* notifyCallbacks with a callback that calls back into the syncer.        *)
(***************************************************************************)
\* the methods of the Syncer a callback can call
SyncerMethods == {"OnSync", "GetLastCommit", "Sync"}

\* a faulty variant of copyCallbacks: the read lock is released when
\* notifyCallbacks returns (defer)
copyCallbacksDeferred(s, i) == [s EXCEPT !.mu = @ \cup {i}]

\* notifyCallbacks in goroutine i: RLock, copy of s.callbacks, RUnlock
copyCallbacks(s, i) == s

\* notifyCallbacks in goroutine i copies the callbacks and calls one that is about
\* to call method m of the syncer
NotifyCall(i, m) ==
  /\ syncer.go[i].pc = "notify"
  /\ syncer' = [copyCallbacks(syncer, i) EXCEPT !.go[i].pc = m]
  /\ out' = Out("callback", "", NoReport, NoReply, FALSE, <<>>)
  /\ UNCHANGED <<registry, connections, conn, push, docs, head, handlers, now, apply, delivered,
                 reported, load>>

\* the callback's call of Syncer.OnSync: Lock, append, Unlock
CallbackOnSync(i) ==
  /\ syncer.go[i].pc = "OnSync"
  /\ Lock(syncer)
  /\ syncer' = [syncer EXCEPT !.callbacks = @ + 1, !.go[i].pc = "return"]
  /\ out' = Out("registered", "", NoReport, NoReply, FALSE, <<>>)
  /\ UNCHANGED <<registry, connections, conn, push, docs, head, handlers, now, apply, delivered,
                 reported, load>>

\* the callback's call of Syncer.GetLastCommit: RLock, read, RUnlock
CallbackGetLastCommit(i) ==
  /\ syncer.go[i].pc = "GetLastCommit"
  /\ syncer' = [syncer EXCEPT !.go[i].pc = "return"]
  /\ out' = Out("lastcommit", "", NoReport, NoReply, FALSE, <<>>)
  /\ UNCHANGED <<registry, connections, conn, push, docs, head, handlers, now, apply, delivered,
                 reported, load>>

\* the callback's call of Syncer.Sync
CallbackSync(i, ok) ==
  /\ syncer.go[i].pc = "Sync"
  /\ Lock(syncer)
  /\ ok => (changed(syncer, syncer.remote) => FreeSlot(syncer) # 0)
  /\ IF ok
       THEN /\ head' = syncer.remote
            /\ syncer' = [synced(syncer, syncer.remote, FreeSlot(syncer)) EXCEPT
                            !.go[i].pc = "return"]
       ELSE /\ syncer' = [syncer EXCEPT !.go[i].pc = "return"]
            /\ UNCHANGED head
  /\ out' = Out(IF ok THEN "synced" ELSE "syncfailed", "", NoReport, NoReply, FALSE, <<>>)
  /\ UNCHANGED <<registry, connections, conn, push, docs, handlers, now, apply, delivered, reported,
                 load>>

\* the callback returns, and notifyCallbacks after it
CallbackReturn(i) ==
  /\ syncer.go[i].pc = "return"
  /\ syncer' = [syncer EXCEPT !.go[i] = NoGo, !.mu = @ \ {i}]
  /\ out' = Out("returned", "", NoReport, NoReply, FALSE, <<>>)
  /\ UNCHANGED <<registry, connections, conn, push, docs, head, handlers, now, apply, delivered,
                 reported, load>>

(***************************************************************************)
(* Resolver.LoadConfigs step by step, under Resolver.mu, next to the       *)
(* readers of the resolver.  Each step reads the working tree as it is     *)
(* when the step runs.                                                     *)
(***************************************************************************)
\* no LoadConfigs in progress.  old and new: the fields of the resolver when
\* the last LoadConfigs took the lock and when it released it; moved: the
\* working tree changed while it ran
NoLoad == [pc |-> "idle", old |-> NewResolver, new |-> NewResolver, err |-> FALSE,
           moved |-> FALSE]

loadBase(d, tree) ==
  [d EXCEPT !.baseConfig = IF tree.hasBase THEN tree.base ELSE @]
loadOverlays(d, tree) == [d EXCEPT !.overlays = Assign(@, tree.overlays)]
loadAgents(d, tree) == [d EXCEPT !.agentConfigs = Assign(@, tree.agents)]
loadSelectors(d, tree) ==
  IF tree.hasSelectors /\ ~tree.selectorsParse THEN [docs |-> d, err |-> TRUE]
  ELSE IF tree.hasSelectors
    THEN [docs |-> [d EXCEPT !.selectors = tree.selectors], err |-> FALSE]
  ELSE [docs |-> d, err |-> FALSE]

\* a faulty variant of RLock: the reader does not wait for the writer
RLockFree(l) == TRUE

\* Resolver.mu.RLock can be taken: no LoadConfigs holds the lock
RLock(l) == l.pc = "idle"

\* the working tree is put at commit n (a pull)
Checkout(n) ==
  /\ n # head
  /\ head' = n
  /\ load' = [load EXCEPT !.moved = @ \/ load.pc # "idle"]
  /\ out' = NoOut
  /\ UNCHANGED <<registry, connections, conn, push, docs, handlers, now, apply, delivered, reported,
                 syncer>>

\* LoadConfigs: Lock, then "Load base config"
LoadBegin ==
  /\ load.pc = "idle"
  /\ head \in Revisions
  /\ docs' = loadBase(docs, Commits[head])
  /\ load' = [pc |-> "overlays", old |-> docs,
              new |-> LoadConfigs(docs, Commits[head]).docs, err |-> FALSE,
              moved |-> FALSE]
  /\ out' = Out("loading", "", NoReport, NoReply, FALSE, <<>>)
  /\ UNCHANGED <<registry, connections, conn, push, head, handlers, now, apply, delivered, reported,
                 syncer>>

\* LoadConfigs: "Load overlays"
LoadOverlays ==
  /\ load.pc = "overlays"
  /\ docs' = loadOverlays(docs, Commits[head])
  /\ load' = [load EXCEPT !.pc = "agents"]
  /\ out' = Out("loading", "", NoReport, NoReply, FALSE, <<>>)
  /\ UNCHANGED <<registry, connections, conn, push, head, handlers, now, apply, delivered, reported,
                 syncer>>

\* LoadConfigs: "Load agent configs"
LoadAgents ==
  /\ load.pc = "agents"
  /\ docs' = loadAgents(docs, Commits[head])
  /\ load' = [load EXCEPT !.pc = "selectors"]
  /\ out' = Out("loading", "", NoReport, NoReply, FALSE, <<>>)
  /\ UNCHANGED <<registry, connections, conn, push, head, handlers, now, apply, delivered, reported,
                 syncer>>

\* LoadConfigs: "Load selectors", return, and the deferred Unlock
LoadSelectors ==
  /\ load.pc = "selectors"
  /\ LET r == loadSelectors(docs, Commits[head])
     IN /\ docs' = r.docs
        /\ load' = [load EXCEPT !.pc = "idle", !.new = r.docs, !.err = r.err]
        /\ out' = Out(IF r.err THEN "reloadfailed" ELSE "reloaded",
                      "", NoReport, NoReply, FALSE, <<>>)
  /\ UNCHANGED <<registry, connections, conn, push, head, handlers, now, apply, delivered, reported,
                 syncer>>

\* labels the readers of the resolver ask about
LabelSets == {EmptyMap, [role |-> "k8s"], [env |-> "prod"]}

\* Resolver.Resolve called by a reader (configProvider, the API): RLock, resolve,
\* RUnlock
ResolveCall(labels) ==
  /\ RLock(load)
  /\ out' = [kind |-> "resolved", labels |-> labels, res |-> Resolve(docs, labels)]
  /\ out' # out
  /\ UNCHANGED <<registry, connections, conn, push, docs, head, handlers, now, apply, delivered,
                 reported, syncer, load>>

\* SelectorMatcher.Match called on the selectors the resolver holds
MatchCall(labels) ==
  /\ out' = [kind |-> "matched", labels |-> labels,
             found |-> MatchIndex(docs.selectors, labels) # 0,
             sel |-> Match(docs.selectors, labels)]
  /\ out' # out
  /\ UNCHANGED <<registry, connections, conn, push, docs, head, handlers, now, apply, delivered,
                 reported, syncer, load>>

\* SelectorMatcher.MatchAll called on the selectors the resolver holds
MatchAllCall(labels) ==
  /\ out' = [kind |-> "matchedall", labels |-> labels,
             sels |-> MatchAll(docs.selectors, labels)]
  /\ out' # out
  /\ UNCHANGED <<registry, connections, conn, push, docs, head, handlers, now, apply, delivered,
                 reported, syncer, load>>

\* selectors a selectors file can hold besides SelK8s and SelProd: one with empty
\* match criteria, one that asks for an empty value, one that names no overlay
SelInert == [name |-> "inert", match |-> EmptyMap, config |-> "prod.yaml", overlay |-> ""]
SelBlank == [name |-> "blank", match |-> [env |-> ""], config |-> "prod.yaml",
             overlay |-> ""]
SelPlain == [name |-> "plain", match |-> [role |-> "k8s"], config |-> "k8s.yaml",
             overlay |-> ""]
SelectorFiles ==
  UNION {[1..n -> {SelK8s, SelProd, SelInert, SelBlank, SelPlain}] : n \in 0..MaxSelectors}

\* the document sets a config directory can load into a new resolver
DocumentSets ==
  {[baseConfig |-> b, overlays |-> o, agentConfigs |-> a, selectors |-> f] :
     b \in {EmptyBytes, BaseDoc},
     o \in {EmptyMap, [production |-> OverlayProd1]},
     a \in {One("k8s.yaml", AgentK8s), [k \in {"k8s.yaml", "prod.yaml"} |->
                                          IF k = "k8s.yaml" THEN AgentK8s ELSE BaseDoc]},
     f \in SelectorFiles}

\* the label sets of the agents that are resolved for
AgentLabels ==
  LabelSets \cup {[role |-> "k8s", env |-> "prod"], [role |-> "web"], [env |-> ""]}

\* values a key of a document can hold
MergeValues ==
  <<Scal("a"), List(<<"x">>), List(<<"y", "z">>), Map([p |-> Scal("a")]),
    Map([q |-> List(<<"x">>)]), Map([p |-> Map([r |-> Scal("b")])]),
    AnyMap(One("8080", Scal("http"))), AnyMap(One("9090", Scal("grpc")))>>

\* the mapping documents handed to the merger: which of the keys k1 and k2 a
\* document has, and which of the values each holds
MappingChoices ==
  UNION {[K -> 1..Len(MergeValues)] : K \in SUBSET {"k1", "k2"}}
MappingDoc(f) == Raw(Map([k \in DOMAIN f |-> MergeValues[f[k]]]))

\* a zero-length document and a document whose top level is not a mapping
OtherDocs == <<EmptyBytes, Raw(Scal("text"))>>

\* the documents the MergeMultiple calls are made with
FoldDocs ==
  <<EmptyBytes, Raw(Scal("text")), BaseDoc, OverlayProd1, OverlayProd2, AgentK8s,
    Raw(Map([k1 |-> List(<<"x">>)])), Raw(Map([k1 |-> List(<<"y", "z">>)]))>>

\* a caller holds the documents it is about to hand to the merger
Holding(configs) == [kind |-> "call", configs |-> configs]

\* Merger.Merge called on the two documents held
MergeCall ==
  /\ out.kind = "call" /\ Len(out.configs) = 2
  /\ out' = [kind |-> "merged", base |-> out.configs[1], overlay |-> out.configs[2],
             res |-> Merge(out.configs[1], out.configs[2])]
  /\ UNCHANGED <<registry, connections, conn, push, docs, head, handlers, now, apply, delivered,
                 reported, syncer, load>>

\* Merger.MergeMultiple called on the documents held
MergeMultipleCall ==
  /\ out.kind = "call"
  /\ out' = [kind |-> "mergedmultiple", configs |-> out.configs,
             res |-> MergeMultiple(out.configs)]
  /\ UNCHANGED <<registry, connections, conn, push, docs, head, handlers, now, apply, delivered,
                 reported, syncer, load>>

(***************************************************************************)
(* The registry called directly through its interface (registry.Registry), *)
(* as the session layer and the REST API call it, with any record a caller *)
(* can pass.                                                               *)
(***************************************************************************)
\* the instance UIDs the callers use
RegistryUIDs == {UIDNames[1], UIDNames[2]}

\* the models.Agent values the callers pass
AgentRecords ==
  {[present |-> TRUE, status |-> st, desc |-> l, labels |-> l, hash |-> hc[1],
    cfg |-> hc[2], err |-> "", seen |-> 0, caps |-> k] :
     st \in {"connected", "disconnected"},
     l \in {EmptyMap, [role |-> "k8s"]},
     hc \in {<<EmptyHash, "">>, <<computeHash(BaseDoc), "applied">>},
     k \in {0, AgentCapabilities}}

\* what a registry call returned: the operation, its key, the record passed (if
\* any), whether it returned an error, and the events it emitted
Called(op, uid, agent, r) ==
  [kind |-> "registry", op |-> op, uid |-> uid, agent |-> agent, err |-> r.err,
   ev |-> r.ev]

\* one call of a registry operation with result r
RegistryCall(op, uid, agent, r) ==
  /\ registry' = r.reg
  /\ out' = Called(op, uid, agent, r)
  /\ UNCHANGED <<connections, conn, push, docs, head, handlers, now, apply, syncer, load,
                 delivered, reported>>

RegisterAgentCall(uid, agent) ==
  RegistryCall("RegisterAgent", uid, agent, RegisterAgent(registry, uid, agent))

UpdateAgentCall(uid, agent) ==
  RegistryCall("UpdateAgent", uid, agent, UpdateAgent(registry, uid, agent))

UpdateAgentStatusCall(uid, status) ==
  RegistryCall("UpdateAgentStatus", uid, NoAgent, UpdateAgentStatus(registry, uid, status))

UpdateAgentConfigStatusCall(uid, configHash, status) ==
  RegistryCall("UpdateAgentConfigStatus", uid, NoAgent,
               UpdateAgentConfigStatus(registry, uid, configHash, status))

RecordHeartbeatCall(uid) ==
  RegistryCall("RecordHeartbeat", uid, NoAgent, RecordHeartbeat(registry, uid))

DeleteAgentCall(uid) ==
  RegistryCall("DeleteAgent", uid, NoAgent, DeleteAgent(registry, uid))

\* Subscribe: the handler is stored under a new id
Subscribe(h) ==
  /\ h \notin handlers
  /\ handlers' = handlers \cup {h}
  /\ out' = NoOut
  /\ UNCHANGED <<registry, connections, conn, push, docs, head, now, apply, syncer, load,
                 delivered, reported>>

\* the function Subscribe returned is called: the handler is removed
Unsubscribe(h) ==
  /\ h \in handlers
  /\ handlers' = handlers \ {h}
  /\ out' = NoOut
  /\ UNCHANGED <<registry, connections, conn, push, docs, head, now, apply, syncer, load,
                 delivered, reported>>

\* UpdateAgentConfigStatus up to the check of RowsAffected: the UPDATE statement;
\* with no row it returns "agent not found"
UpdateAgentConfigStatusExec(uid, configHash, status) ==
  /\ apply.pc = "idle"
  /\ IF ~registry[uid].present
       THEN /\ out' = Called("UpdateAgentConfigStatus", uid, NoAgent,
                             RegOut(registry, TRUE, <<>>))
            /\ UNCHANGED <<registry, apply>>
       ELSE /\ registry' = [registry EXCEPT ![uid].hash = configHash, ![uid].cfg = status]
            /\ apply' = [pc |-> "updated", uid |-> uid, status |-> status]
            /\ out' = NoOut
  /\ UNCHANGED <<connections, conn, push, docs, head, handlers, now, syncer, load,
                 delivered, reported>>

\* UpdateAgentConfigStatus after the UPDATE: GetAgent, emit when it finds the row,
\* return nil
UpdateAgentConfigStatusEmit ==
  /\ apply.pc = "updated"
  /\ out' = Called("UpdateAgentConfigStatus", apply.uid, NoAgent,
                   RegOut(registry, FALSE,
                          IF GetAgent(registry, apply.uid).present
                            THEN emit(configEvent(apply.status), apply.uid)
                            ELSE <<>>))
  /\ apply' = NoApply
  /\ UNCHANGED <<registry, connections, conn, push, docs, head, handlers, now, syncer, load,
                 delivered, reported>>

\* time passes: the next time.Now() reads later
Elapse ==
  /\ now < MaxNow
  /\ now' = now + 1
  /\ out' = NoOut
  /\ UNCHANGED <<registry, connections, conn, push, docs, head, handlers, apply, syncer, load,
                 delivered, reported>>

(***************************************************************************)
(* Specifications of the running server.                                   *)
(***************************************************************************)
Init ==
  /\ registry = [u \in AllUIDs |-> NoAgent]
  /\ connections = [u \in AllUIDs |-> NoConn]
  /\ conn = [c \in AllConns |-> Idle("free")]
  /\ push = NoPush
  /\ docs = LoadConfigs(NewResolver, Commits[1]).docs
  /\ head = 1
  /\ handlers = {}
  /\ delivered = [u \in AllUIDs |-> EmptyHash]
  /\ reported = [u \in AllUIDs |-> EmptyHash]
  /\ syncer = NewSyncer(0)
  /\ load = NoLoad
  /\ now = 0
  /\ apply = NoApply
  /\ out = NoOut

\* the server with its agents in U talking over the connections in C
Session(U, C) ==
  \/ \E c \in C : Connect(c) \/ Break(c) \/ CloseDelete(c) \/ CloseStatus(c)
  \/ \E c \in C, m \in Messages(U), lost \in BOOLEAN : HandleMessage(c, m, lost)
  \/ \E u \in U : PushConfigToAgent(u)
  \/ PushConfigToAll \/ PushRange \/ PushSend \/ PushSendFail \/ PushMark
  \/ OnSync
  \/ \E u \in U : AdminDelete(u)

Next == Session(UIDs, Conns)

Spec == Init /\ [][Next]_vars

\* several instance UIDs arrive over the same connections; no pushes, no reloads
NextShared ==
  \/ \E c \in DupConns : Connect(c) \/ Break(c) \/ CloseDelete(c) \/ CloseStatus(c)
  \/ \E c \in DupConns, m \in PlainMessages(SharedUIDs) : HandleMessage(c, m, FALSE)

SpecShared == Init /\ [][NextShared]_vars

\* one agent uses several connections at once, and the callbacks of different
\* connections interleave between the registry calls of handleAgentDescription
NextRace ==
  \/ \E c \in DupConns : Connect(c)
  \/ \E c \in DupConns, m \in PlainMessages({UIDNames[1]}) :
       HandleMessage(c, m, FALSE) \/ HandleMessageRead(c, m)
  \/ \E c \in DupConns : HandleMessageWrite(c) \/ HandleMessageRest(c, FALSE)
  \/ OnSync \/ PushRange \/ PushSend \/ PushMark
  \/ \E u \in {UIDNames[1]} : AdminDelete(u)

SpecRace == Init /\ [][NextRace]_vars

\* the server with a git repository configured, right after main has built the
\* resolver and the syncer: nothing cloned, nothing loaded, no agent yet
InitSync ==
  /\ registry = [u \in AllUIDs |-> NoAgent]
  /\ connections = [u \in AllUIDs |-> NoConn]
  /\ conn = [c \in AllConns |-> Idle("free")]
  /\ push = NoPush
  /\ docs = NewResolver
  /\ head = 0
  /\ handlers = {}
  /\ delivered = [u \in AllUIDs |-> EmptyHash]
  /\ reported = [u \in AllUIDs |-> EmptyHash]
  /\ \E p \in PollIntervals : syncer = NewSyncer(p)
  /\ load = NoLoad
  /\ now = 0
  /\ apply = NoApply
  /\ out = NoOut

\* the syncer, its poll loop and its callbacks, with commits arriving at origin
NextSync ==
  \/ Commit
  \/ \E ok \in BOOLEAN : Start(ok) \/ Sync(ok) \/ Tick(ok)
  \/ Cancel \/ LoopExit \/ StopCall \/ StopReturn
  \/ \E i \in 1..MaxNotify : CallbackReload(i) \/ CallbackPush(i) \/ CallbackFail(i)

SpecSync == InitSync /\ [][NextSync]_vars

\* the syncer with callbacks registered that call back into it
NextNotify ==
  \/ Commit
  \/ \E ok \in BOOLEAN : Sync(ok)
  \/ \E i \in 1..MaxNotify, m \in SyncerMethods : NotifyCall(i, m)
  \/ \E i \in 1..MaxNotify : CallbackOnSync(i) \/ CallbackGetLastCommit(i) \/ CallbackReturn(i)
  \/ \E i \in 1..MaxNotify, ok \in BOOLEAN : CallbackSync(i, ok)

SpecNotify == InitSync /\ [][NextNotify]_vars

\* reloads of the resolver next to its readers, with the working tree moving
NextLoad ==
  \/ \E n \in Revisions : Checkout(n)
  \/ LoadBegin \/ LoadOverlays \/ LoadAgents \/ LoadSelectors
  \/ \E labels \in LabelSets : ResolveCall(labels)

SpecLoad == InitSync /\ [][NextLoad]_vars

\* callers of the registry interface, with time passing
NextRegistry ==
  \/ \E u \in RegistryUIDs, a \in AgentRecords : RegisterAgentCall(u, a) \/ UpdateAgentCall(u, a)
  \/ \E u \in RegistryUIDs, st \in {"connected", "disconnected"} : UpdateAgentStatusCall(u, st)
  \/ \E u \in RegistryUIDs, st \in {"applied", "failed"} :
       UpdateAgentConfigStatusCall(u, computeHash(BaseDoc), st)
  \/ \E u \in RegistryUIDs : RecordHeartbeatCall(u) \/ DeleteAgentCall(u)
  \/ Elapse

SpecRegistry == Init /\ [][NextRegistry]_vars

\* callers of UpdateAgentConfigStatus next to registrations, deletes and handlers
\* that subscribe and unsubscribe
NextEvents ==
  \/ \E u \in RegistryUIDs : \E m \in PlainMessages({u}) :
       RegisterAgentCall(u, agentFromMessage(m))
  \/ \E u \in RegistryUIDs : DeleteAgentCall(u)
  \/ \E h \in HandlerIDs : Subscribe(h) \/ Unsubscribe(h)
  \/ \E u \in RegistryUIDs, st \in {"applied", "pending", "failed", "unknown"} :
       UpdateAgentConfigStatusExec(u, computeHash(BaseDoc), st)
  \/ UpdateAgentConfigStatusEmit

SpecEvents == Init /\ [][NextEvents]_vars

\* a resolver that has loaded some config directory, nothing else going on
InitResolve ==
  /\ registry = [u \in AllUIDs |-> NoAgent]
  /\ connections = [u \in AllUIDs |-> NoConn]
  /\ conn = [c \in AllConns |-> Idle("free")]
  /\ push = NoPush
  /\ docs \in DocumentSets
  /\ head = 0
  /\ handlers = {}
  /\ delivered = [u \in AllUIDs |-> EmptyHash]
  /\ reported = [u \in AllUIDs |-> EmptyHash]
  /\ syncer = NewSyncer(0)
  /\ load = NoLoad
  /\ now = 0
  /\ apply = NoApply
  /\ out = NoOut

\* the matcher and the resolver asked about agents with different labels
NextResolve ==
  \E labels \in AgentLabels : MatchCall(labels) \/ MatchAllCall(labels) \/ ResolveCall(labels)

SpecResolve == InitResolve /\ [][NextResolve]_vars

\* a caller of the merger holding a pair of mapping documents, a mapping document
\* and another one, or a list of up to MaxConfigs documents
InitMerge ==
  /\ registry = [u \in AllUIDs |-> NoAgent]
  /\ connections = [u \in AllUIDs |-> NoConn]
  /\ conn = [c \in AllConns |-> Idle("free")]
  /\ push = NoPush
  /\ docs = NewResolver
  /\ head = 0
  /\ handlers = {}
  /\ delivered = [u \in AllUIDs |-> EmptyHash]
  /\ reported = [u \in AllUIDs |-> EmptyHash]
  /\ syncer = NewSyncer(0)
  /\ load = NoLoad
  /\ now = 0
  /\ apply = NoApply
  /\ \/ \E f \in MappingChoices, g \in MappingChoices :
          out = Holding(<<MappingDoc(f), MappingDoc(g)>>)
     \/ \E f \in MappingChoices, i \in DOMAIN OtherDocs :
          \/ out = Holding(<<MappingDoc(f), OtherDocs[i]>>)
          \/ out = Holding(<<OtherDocs[i], MappingDoc(f)>>)
     \/ \E c \in UNION {[1..n -> DOMAIN FoldDocs] : n \in 0..MaxConfigs} :
          out = Holding([i \in DOMAIN c |-> FoldDocs[c[i]]])

\* the merger called on the documents held
NextMerge == MergeCall \/ MergeMultipleCall

SpecMerge == InitMerge /\ [][NextMerge]_vars

(***************************************************************************)
(* Properties.                                                             *)
(***************************************************************************)
\* handleMessage has just returned a reply that carries remote_config
RepliedWithConfig == out.kind = "reply" /\ out.reply.hasConfig

\* C1: whenever handleMessage returns a reply that carries remote_config with
\* config_hash h for agent a, the row of a read right after the return has
\* effective config hash h and config status pending.
C1_ReplyConfigRecorded ==
  RepliedWithConfig =>
    /\ registry[out.uid].present
    /\ registry[out.uid].hash = out.reply.hash
    /\ registry[out.uid].cfg = "pending"

\* a reply with a config has been returned and the row holds its hash as pending
C1_Witness ==
  /\ RepliedWithConfig
  /\ out.reply.hash # EmptyHash
  /\ registry[out.uid].hash = out.reply.hash
  /\ registry[out.uid].cfg = "pending"

\* C2: the effective config hash of a row changes value only in a step that
\* also sets the row's config status to pending.
C2_HashChangesOnlyWithPending ==
  [][\A u \in AllUIDs :
       (registry[u].present /\ registry'[u].present
          /\ registry'[u].hash # registry[u].hash) => registry'[u].cfg = "pending"]_vars

\* handleMessage has just returned for a message of a registered agent that
\* carried an apply report with status st
Reported(st) ==
  /\ out.kind = "reply"
  /\ out.report.present
  /\ out.report.status = st
  /\ registry[out.uid].present

\* C3: a row whose config status is applied has an effective config hash equal
\* to the hash carried by that agent's most recent apply report.
C3_AppliedMatchesLastReport ==
  \A u \in AllUIDs :
    (registry[u].present /\ registry[u].cfg = "applied") => registry[u].hash = reported[u]

YieldsNoOther(labels, d) ==
  Resolve(docs, labels).kind = "config" => Resolve(docs, labels).hash = d

\* C5: when an agent whose row has effective config hash d sends an apply
\* report with status failed, whatever hash the report carries, after the
\* message is processed the row has config status failed, its hash is still d,
\* and a config_failed event has gone to every subscribed handler (looked at
\* when the resolver has no other config than d for the agent).
C5_FailedReportKeepsDesired ==
  [][\A u \in AllUIDs :
       (/\ out'.kind = "reply"
        /\ out'.uid = u
        /\ out'.report.present
        /\ out'.report.status = "FAILED"
        /\ registry[u].present
        /\ registry'[u].present
        /\ YieldsNoOther(registry'[u].labels, registry[u].hash)) =>
         /\ registry'[u].cfg = "failed"
         /\ registry'[u].hash = registry[u].hash
         /\ \E i \in 1..Len(out'.ev) :
              out'.ev[i] = [type |-> "config_failed", uid |-> u, to |-> handlers]]_vars

\* C6: after an apply report with status failed and error message e, the row
\* carries e as its apply error.
C6_ApplyErrorStored ==
  Reported("FAILED") => registry[out.uid].err = out.report.err

\* no close callback is waiting or in progress
Settled == \A c \in AllConns : conn[c].st \in {"free", "open"}

\* C7: every row with status connected has an entry in the session table whose
\* connection is still open (looked at when no close is waiting to be processed).
C7_ConnectedHasLiveSession ==
  Settled =>
    \A u \in AllUIDs :
      (registry[u].present /\ registry[u].status = "connected") =>
        /\ connections[u] # NoConn
        /\ conn[connections[u]].st = "open"

\* C8: when the send of a push with hash h to agent a completes, the row of a
\* already has effective config hash h and config status pending.
C8_RecordedBeforeSendCompletes ==
  out.kind = "sent" =>
    /\ registry[out.uid].hash = out.reply.hash
    /\ registry[out.uid].cfg = "pending"

\* C9: if the send of a push with hash h to agent a fails because the
\* connection has closed, the row of a still ends with hash h and status pending.
C9_RecordedThoughSendFails ==
  out.kind = "sendfailed" =>
    /\ registry[out.uid].hash = out.reply.hash
    /\ registry[out.uid].cfg = "pending"

\* agent u has a session on an open connection
InSession(u) == connections[u] # NoConn /\ conn[connections[u]].st = "open"

\* a config is recorded for u and is what the resolver still yields for u, and
\* the agent has never received a config
Unreceived(u) ==
  /\ registry[u].present
  /\ registry[u].hash # EmptyHash
  /\ delivered[u] = EmptyHash
  /\ Resolve(docs, registry[u].labels).kind = "config"
  /\ Resolve(docs, registry[u].labels).hash = registry[u].hash

\* C10: when a config with hash h was chosen for agent a but a never received it,
\* and the resolver still yields h for a, then after a has reconnected and while it
\* keeps sending messages it is eventually sent the config with hash h.  In finite
\* form: no message of such an agent is answered without the config while leaving
\* the server exactly where it was, since the agent's next message would then find
\* the same state and get the same answer, for ever.
C10_ReconciledOnReconnect ==
  [][\A u \in AllUIDs :
       ~(/\ InSession(u)
         /\ Unreceived(u)
         /\ out'.kind = "reply"
         /\ out'.uid = u
         /\ ~out'.lost
         /\ ~out'.reply.hasConfig
         /\ UNCHANGED <<registry, connections, conn, push, docs, head, handlers, now, apply, syncer, load,
                        delivered, reported>>)]_vars

AppliedCurrent(u) ==
  /\ registry[u].present
  /\ registry[u].cfg = "applied"
  /\ Resolve(docs, registry[u].labels).kind = "config"
  /\ Resolve(docs, registry[u].labels).hash = registry[u].hash

\* a message of u has just been answered, with the document set and the labels
\* of u as they were
AnsweredUnchanged(u) ==
  /\ out'.kind = "reply"
  /\ out'.uid = u
  /\ docs' = docs
  /\ registry'[u].present
  /\ registry'[u].labels = registry[u].labels

\* the message answered carried no apply report, or an applied report for the
\* hash the row holds
ReportKeeps(u) ==
  \/ ~out'.report.present
  \/ out'.report.status = "APPLIED" /\ out'.report.hash = registry[u].hash

\* the reply carries no remote_config and the row is still applied with its hash
StaysApplied(u) ==
  /\ ~out'.reply.hasConfig
  /\ registry'[u].cfg = "applied"
  /\ registry'[u].hash = registry[u].hash

AnsweredOnResolverError(u) ==
  /\ out'.kind = "reply"
  /\ out'.uid = u
  /\ registry[u].present
  /\ registry'[u].present
  /\ Resolve(docs, registry'[u].labels).kind = "error"

\* hash and config status of the row of u are as they were
SameConfigStatus(u) ==
  /\ registry'[u].hash = registry[u].hash
  /\ registry'[u].cfg = registry[u].cfg

\* a push has gone past its configProvider call towards conn.Send
PushResolved == push.pc \in {"idle", "range"} /\ push'.pc = "send"

C14_PushToDisconnectedIsNoOp ==
  [][\A u \in AllUIDs :
       (out'.kind = "push" /\ out'.uid = u /\ connections[u] = NoConn) =>
         (/\ push' = NoPush
          /\ ~out'.lost
          /\ UNCHANGED <<registry, connections, conn, delivered>>)]_vars

\* PushConfigToAgent has been called for a registered agent that has no entry
\* in the session table
C14_Witness ==
  /\ out.kind = "push"
  /\ registry[out.uid].present
  /\ registry[out.uid].status = "disconnected"
  /\ connections[out.uid] = NoConn
  /\ Resolve(docs, registry[out.uid].labels).kind = "config"

\* the notifyCallbacks goroutine of slot i has ended in this step
Ended(i) == syncer.go[i] # NoGo /\ syncer'.go[i] = NoGo

\* C15: the fan-out push of the sync callback starts only after the reload of
\* that callback has completed, and when the reload fails the callback makes no
\* fan-out push: a callback goes from its start to the push only through a
\* reload that succeeded, it ends either by starting the push after such a
\* reload or, after a failed one, without touching the push, and the push is
\* started by no step but the end of a callback.
C15_PushAfterReloadOnly ==
  [][/\ \A i \in 1..MaxNotify :
          /\ (syncer.go[i].pc = "notify" /\ syncer'.go[i] # syncer.go[i]) =>
                (/\ out'.kind \in {"reloaded", "reloadfailed"}
                 /\ syncer'.go[i].pc = IF out'.kind = "reloaded" THEN "push" ELSE "failed"
                 /\ syncer'.go[i].err = (out'.kind = "reloadfailed")
                 /\ push' = push)
          /\ Ended(i) =>
                IF syncer.go[i].err
                  THEN out'.kind = "callbackfailed" /\ push' = push
                  ELSE out'.kind = "pushall" /\ syncer.go[i].pc = "push"
     /\ (out'.kind = "pushall") => (\E i \in 1..MaxNotify : Ended(i) /\ ~syncer.go[i].err)]_vars

\* a callback whose reload failed has returned without a push
C15_Witness ==
  /\ out.kind = "callbackfailed"
  /\ load.err
  /\ push = NoPush
  /\ docs = load.new

\* C16: a resolve that runs next to a reload sees the fields of the resolver
\* either all as they were when the reload took the lock or all as they were
\* when it released it: its result is the result on one of those two sets.
C16_ResolveSeesOneSnapshot ==
  out.kind = "resolved" =>
    out.res \in {Resolve(load.old, out.labels), Resolve(load.new, out.labels)}

\* a resolve has run after a reload that changed what it yields
C16_Witness ==
  /\ out.kind = "resolved"
  /\ out.res.kind = "config"
  /\ out.res = Resolve(load.new, out.labels)
  /\ out.res # Resolve(load.old, out.labels)
  /\ Resolve(load.old, out.labels).kind = "config"

\* C17: when a reload fails, the document set is exactly the one held before
\* the reload began (here for reloads during which the working tree stood still).
C17_FailedReloadKeepsSet ==
  [][(out'.kind = "reloadfailed" /\ ~load'.moved) => docs' = load'.old]_vars

\* what the directory holds at a commit: a missing file is no document
DirectoryContents(tree) ==
  [baseConfig |-> IF tree.hasBase THEN tree.base ELSE EmptyBytes,
   overlays |-> tree.overlays,
   agentConfigs |-> tree.agents,
   selectors |-> IF tree.hasSelectors THEN tree.selectors ELSE <<>>]

\* C18: after a successful reload the document set held is exactly what the
\* directory contains at that commit (here for reloads during which the working
\* tree stood still).
C18_ReloadedSetIsDirectory ==
  [][(out'.kind = "reloaded" /\ ~load'.moved) =>
        docs' = DirectoryContents(Commits[head'])]_vars

\* the notifyCallbacks goroutines started in this step
Spawned ==
  {i \in 1..MaxNotify : syncer.go[i].pc = "free" /\ syncer'.go[i].pc = "notify"}

\* C19: Sync starts the callbacks, with the commit it observed, exactly when that
\* commit differs from the one observed before; a sync that observes the same
\* commit, or fails, starts none; and each goroutine started enters the callback
\* once with its commit and then ends.
C19_CallbacksOnChangeOnly ==
  [][/\ (out'.kind \in {"synced", "started"}) =>
          IF head' # syncer.lastCommit
            THEN /\ syncer'.lastCommit = head'
                 /\ Cardinality(Spawned) = 1
                 /\ \A i \in Spawned : syncer'.go[i].commit = head'
                 /\ \A i \in (1..MaxNotify) \ Spawned : syncer'.go[i] = syncer.go[i]
            ELSE syncer'.go = syncer.go /\ syncer'.lastCommit = syncer.lastCommit
     /\ (out'.kind \notin {"synced", "started"}) =>
          (Spawned = {} /\ syncer'.lastCommit = syncer.lastCommit)
     /\ \A i \in 1..MaxNotify :
          /\ (syncer.go[i].pc = "notify" /\ syncer'.go[i] # syncer.go[i]) =>
                (/\ syncer'.go[i].pc \in {"push", "failed"}
                 /\ syncer'.go[i].commit = syncer.go[i].commit)
          /\ (syncer.go[i].pc \in {"push", "failed"} /\ syncer'.go[i] # syncer.go[i]) =>
                syncer'.go[i] = NoGo]_vars

\* a sync has observed the commit observed before and started no callback
C19_Witness ==
  /\ out.kind = "synced"
  /\ syncer.lastCommit = head
  /\ head > 1
  /\ \A i \in 1..MaxNotify : syncer.go[i] = NoGo

\* C20: after Start has succeeded, whatever the poll interval, a call of Stop
\* ends the poll loop and returns.  In finite form: a Stop that waits for doneCh
\* has a poll loop that closes it, or has closed it.
C20_StopReturns ==
  syncer.stop = "waiting" => syncer.loop \in {"running", "exited"}
\* RegisterAgent has just been called on a key that had a row
Upserted == out'.kind = "registry" /\ out'.op = "RegisterAgent" /\ registry[out'.uid].present

\* C21: RegisterAgent on an instance_uid that already has a row overwrites
\* description, labels, status, last_seen and capabilities with the passed
\* record's values (last_seen with the time of the call) and leaves the row's
\* config hash and config status as they were, whatever the passed record
\* carries for them.
C21_UpsertKeepsConfigColumns ==
  [][Upserted =>
       LET old == registry[out'.uid]
           new == registry'[out'.uid]
           agent == out'.agent
       IN /\ new.present /\ ~out'.err
          /\ new.desc = agent.desc /\ new.labels = agent.labels
          /\ new.status = agent.status /\ new.caps = agent.caps
          /\ new.seen = now
          /\ new.hash = old.hash /\ new.cfg = old.cfg]_vars

\* RegisterAgent has returned for a row that held a config hash and status, with a
\* passed record that differs from the row in every column
C21_Witness ==
  /\ out.kind = "registry" /\ out.op = "RegisterAgent"
  /\ registry[out.uid].hash = computeHash(BaseDoc) /\ registry[out.uid].cfg = "failed"
  /\ out.agent.hash = EmptyHash /\ out.agent.cfg = ""
  /\ registry[out.uid].seen = MaxNow /\ registry[out.uid].caps = AgentCapabilities
  /\ registry[out.uid].status = "disconnected"

\* the keyed mutations of the registry
KeyedMutations ==
  {"UpdateAgent", "UpdateAgentStatus", "UpdateAgentConfigStatus", "RecordHeartbeat",
   "DeleteAgent"}

\* a keyed mutation has just been called on a key that has no row
MissedKey == out'.kind = "registry" /\ out'.op \in KeyedMutations /\ ~registry[out'.uid].present

\* C22: every keyed mutation (UpdateAgent, UpdateAgentStatus,
\* UpdateAgentConfigStatus, RecordHeartbeat, DeleteAgent) on an instance_uid
\* that has no row returns a not-found error, creates no row, changes no other
\* row and emits no event.
C22_MissingKeyIsNotFound ==
  [][MissedKey => (out'.err /\ registry' = registry /\ out'.ev = <<>>)]_vars

\* C23: the row of an agent stays in the registry through every step of the
\* server (messages, apply reports, pushes, reloads, disconnects, reconnects);
\* the only step after which a row that existed is gone is DeleteAgent on its
\* instance_uid.  (The table is keyed by instance_uid, so a key never has
\* more than one row.)
C23_RowStaysUntilDeleted ==
  [][\A u \in AllUIDs :
       (registry[u].present /\ ~registry'[u].present) =>
         (out'.kind = "deleted" /\ out'.uid = u)]_vars

\* the close of a connection has been processed for an agent that had received
\* and applied a config of the last commit, and its row is still there
C23_Witness ==
  /\ out.kind = "closed" /\ head = MaxCommits
  /\ registry[out.uid].present /\ registry[out.uid].status = "disconnected"
  /\ registry[out.uid].cfg = "applied" /\ registry[out.uid].hash # EmptyHash

\* handleMessage has just returned for the first message of a session of out'.uid
FirstMessageProcessed == out'.kind = "reply" /\ connections[out'.uid] = NoConn

\* handleConnectionClose has just returned for connection c
CloseProcessed(c) == conn[c].st \in {"broken", "closing"} /\ conn'[c].st = "free"

\* the agents whose session ran over connection c when its close was processed
SessionsOver(c) == {u \in AllUIDs : connections[u] = c \/ conn[c].uid = u}

\* C24: when the first message of a session of an agent has been processed the
\* agent's row has status connected, and when the close of a connection has been
\* processed every agent whose session ran over it (and that still has a row) has
\* status disconnected.
C24_StatusFollowsSession ==
  [][/\ FirstMessageProcessed =>
          (registry'[out'.uid].present /\ registry'[out'.uid].status = "connected")
     /\ \A c \in AllConns :
          CloseProcessed(c) =>
            \A u \in SessionsOver(c) :
              registry'[u].present => registry'[u].status = "disconnected"]_vars

\* C25: the labels of an agent's row are exactly the identifying attributes of
\* the last agent description processed for it (the description the row holds):
\* every identifying pair is a label and there is no other label.
C25_LabelsAreIdentifyingAttributes ==
  \A u \in AllUIDs :
    registry[u].present => registry[u].labels = registry[u].desc

\* every key of the selector's match.labels is a label with the same value
AllPresentAndEqual(labels, selector) ==
  /\ DOMAIN selector.match # {}
  /\ \A key \in DOMAIN selector.match :
       key \in DOMAIN labels /\ labels[key] = selector.match[key]

\* positions in file order of the selectors the labels satisfy
Satisfied(labels) ==
  {i \in 1..Len(docs.selectors) : AllPresentAndEqual(labels, docs.selectors[i])}

\* C26: Match returns the earliest selector in file order whose match.labels
\* are all present in the labels with equal values (the first of two that both
\* match), and nothing when there is no such selector.
C26_MatchIsFirstSatisfied ==
  out.kind = "matched" =>
    IF Satisfied(out.labels) = {} THEN ~out.found
    ELSE /\ out.found
         /\ \E i \in Satisfied(out.labels) :
              /\ out.sel = docs.selectors[i]
              /\ \A j \in Satisfied(out.labels) : i <= j

\* C27: a selector whose match.labels is empty is never returned by Match or
\* MatchAll, for any labels.
C27_EmptyMatchIsInert ==
  /\ (out.kind = "matched" /\ out.found) => DOMAIN out.sel.match # {}
  /\ out.kind = "matchedall" =>
       \A i \in 1..Len(out.sels) : DOMAIN out.sels[i].match # {}

\* Match and MatchAll have been asked about the empty label set, and about a
\* non-empty one, with a selector with empty match criteria first in the file
C27_Witness ==
  /\ Len(docs.selectors) = 2
  /\ DOMAIN docs.selectors[1].match = {}
  /\ \/ out.kind = "matched" /\ out.labels = EmptyMap /\ ~out.found
     \/ out.kind = "matchedall" /\ out.labels = [role |-> "k8s"] /\ Len(out.sels) = 1

\* Resolve has returned for labels that no selector of the resolver matches
ResolvedUnmatched ==
  /\ out.kind = "resolved"
  /\ \A i \in 1..Len(docs.selectors) : ~matchesSelector(out.labels, docs.selectors[i])

\* C28: when no selector matches the labels, Resolve returns the base document
\* under the name "base", with an empty selector name and the hash of the base,
\* if the base is non-empty, and (nil, nil) if the base is empty.
C28_UnmatchedGetsBase ==
  ResolvedUnmatched =>
    out.res = IF Len0(docs.baseConfig) THEN ResNil
              ELSE [kind |-> "config", name |-> "base",
                    hash |-> computeHash(docs.baseConfig), selector |-> "", err |-> ""]

\* Resolve has returned the base for labels that match none of two selectors
C28_Witness ==
  /\ ResolvedUnmatched /\ Len(docs.selectors) = 2 /\ out.labels = [role |-> "web"]
  /\ out.res.kind = "config" /\ docs.baseConfig = BaseDoc

\* Resolve has returned for labels whose first matching selector names a config
\* path that is not among the agent configs
ResolvedMissingConfig ==
  /\ out.kind = "resolved"
  /\ MatchIndex(docs.selectors, out.labels) # 0
  /\ Match(docs.selectors, out.labels).config \notin DOMAIN docs.agentConfigs

\* C29: when the first matching selector names a config path with no entry in
\* the agent configs, Resolve returns an error and no config, whatever the base
\* and the later selectors are.
C29_MissingConfigIsError ==
  ResolvedMissingConfig => out.res = ResErr("config not found")

\* Resolve has failed on a missing config path although the base is non-empty and
\* the next selector matches too and names a config that exists
C29_Witness ==
  /\ ResolvedMissingConfig /\ docs.baseConfig = BaseDoc
  /\ docs.selectors = <<SelProd, SelPlain>>
  /\ out.labels = [role |-> "k8s", env |-> "prod"]
  /\ out.res.kind = "error" /\ out.res.err = "config not found"

\* Resolve has returned for labels whose first matching selector names an overlay
\* that the resolver does not hold (its config path exists)
ResolvedMissingOverlay ==
  /\ out.kind = "resolved"
  /\ MatchIndex(docs.selectors, out.labels) # 0
  /\ LET selector == Match(docs.selectors, out.labels)
     IN /\ selector.config \in DOMAIN docs.agentConfigs
        /\ selector.overlay # "" /\ selector.overlay \notin DOMAIN docs.overlays

\* the same document set with the overlay name taken out of every selector
WithoutOverlayNames(d) ==
  [d EXCEPT !.selectors = [i \in 1..Len(d.selectors) |->
                             [d.selectors[i] EXCEPT !.overlay = ""]]]

HoldsMapping(n) == n.t \in {"m", "g"}

\* the two nodes are the same key-value tree
RECURSIVE SameTree(_, _)
SameTree(a, b) ==
  /\ a.t = b.t
  /\ IF HoldsMapping(a)
       THEN /\ DOMAIN a.v = DOMAIN b.v
            /\ \A k \in DOMAIN a.v : SameTree(a.v[k], b.v[k])
       ELSE a.v = b.v

\* the two merge results are the same: both errors, or the same tree in the same form
SameResult(r, q) ==
  /\ r.err = q.err
  /\ r.bytes.form = q.bytes.form
  /\ SameTree(r.bytes.tree, q.bytes.tree)

\* the merge of two mappings as the documentation of the merger describes it
RECURSIVE MergedAtEveryPath(_, _)
MergedAtEveryPath(base, overlay) ==
  [k \in (DOMAIN base) \cup (DOMAIN overlay) |->
     IF k \notin DOMAIN overlay THEN base[k]
     ELSE IF k \notin DOMAIN base THEN overlay[k]
     ELSE IF HoldsMapping(base[k]) /\ HoldsMapping(overlay[k])
       THEN [t |-> IF base[k].t = "g" \/ overlay[k].t = "g" THEN "g" ELSE "m",
             v |-> MergedAtEveryPath(base[k].v, overlay[k].v)]
     ELSE overlay[k]]

\* the left-to-right fold of Merge over the first n documents of a non-empty list
RECURSIVE FoldOfMerge(_, _)
FoldOfMerge(configs, n) ==
  IF n = 1 THEN MergeOK(configs[1])
  ELSE LET r == FoldOfMerge(configs, n - 1)
       IN IF r.err THEN MergeErr ELSE Merge(r.bytes, configs[n])

\* Merge has returned for two non-empty documents that are mappings
MergedMappings ==
  /\ out.kind = "merged"
  /\ ~Len0(out.base) /\ ~Len0(out.overlay)
  /\ HoldsMapping(out.base.tree) /\ HoldsMapping(out.overlay.tree)

\* C31: Merge of two non-empty mapping documents yields, at every path, the
\* recursive merge where both sides hold mappings, the overlay's value where both
\* sides have the key and one is not a mapping (sequences are replaced), and
\* the single side's value where one side has the key; MergeMultiple is the
\* left-to-right fold of Merge.
C31_MergeAtEveryPath ==
  /\ MergedMappings =>
       /\ ~out.res.err
       /\ SameTree(out.res.bytes.tree,
                   Map(MergedAtEveryPath(out.base.tree.v, out.overlay.tree.v)))
  /\ (out.kind = "mergedmultiple" /\ Len(out.configs) > 0) =>
       SameResult(out.res, FoldOfMerge(out.configs, Len(out.configs)))

\* C32: Merge is idempotent on mapping documents: Merge(x, x) succeeds and is
\* the same key-value tree as x.
C32_MergeIdempotent ==
  (MergedMappings /\ SameTree(out.base.tree, out.overlay.tree)) =>
    (~out.res.err /\ SameTree(out.res.bytes.tree, out.base.tree))

\* Merge(x, x) has returned for a document with a sequence and nested mappings
C32_Witness ==
  /\ MergedMappings /\ SameTree(out.base.tree, out.overlay.tree)
  /\ DOMAIN out.base.tree.v = {"k1", "k2"}
  /\ out.base.tree.v["k1"].t = "l" /\ Len(out.base.tree.v["k1"].v) = 2
  /\ out.base.tree.v["k2"].t = "m" /\ "p" \in DOMAIN out.base.tree.v["k2"].v
  /\ out.base.tree.v["k2"].v["p"].t = "m"
  /\ out.res.bytes.form = "canon"


\* the step of handleConnectionClose(c) that ends it
ClosingEnds(c) == conn[c].st = "closing" /\ conn'[c].st = "free"

\* C33: on connection close the session table entry is removed before the registry
\* status is set to disconnected: when the close of c writes the status of the
\* agent it found, that agent's entry no longer holds c, before the write and after
C33_EntryRemovedBeforeDisconnected ==
  [][\A c \in AllConns : ClosingEnds(c) =>
        /\ connections[conn[c].uid] # c /\ connections'[conn[c].uid] # c
        /\ registry[conn[c].uid].present =>
              registry'[conn[c].uid].status = "disconnected"]_vars

\* a close has been processed: the agent found is disconnected and has no entry
C33_Witness ==
  /\ out.kind = "closed"
  /\ registry[out.uid].present /\ registry[out.uid].status = "disconnected"
  /\ connections[out.uid] = NoConn


\* the step of handleConnectionClose(c) that looks c up in the session table
ClosingBegins(c) == conn[c].st = "broken" /\ conn'[c].st # "broken"

\* C36: on close of connection c the one entry removed from the session table
\* stored c, and the record set to disconnected is the one of that entry's
\* instance UID; entries and records of every other agent are unchanged; when no
\* entry stores c, neither the session table nor the registry changes
C36_CloseTouchesOneAgent ==
  [][\A c \in AllConns :
        /\ ClosingBegins(c) =>
              /\ registry' = registry
              /\ IF \E u \in AllUIDs : connections[u] = c
                   THEN \E u \in AllUIDs :
                          /\ connections[u] = c /\ connections'[u] = NoConn
                          /\ \A v \in AllUIDs \ {u} : connections'[v] = connections[v]
                          /\ conn'[c].st = "closing" /\ conn'[c].uid = u
                   ELSE connections' = connections /\ conn'[c].st = "free"
        /\ ClosingEnds(c) =>
              /\ connections' = connections
              /\ \A v \in AllUIDs \ {conn[c].uid} : registry'[v] = registry[v]
              /\ registry[conn[c].uid].present =>
                    registry'[conn[c].uid] =
                      [registry[conn[c].uid] EXCEPT !.status = "disconnected", !.seen = now]
              /\ ~registry[conn[c].uid].present => registry' = registry]_vars

\* a close has been processed while another agent is in session: that agent is
\* still connected and still in the session table
C36_Witness ==
  /\ out.kind = "closed" /\ registry[out.uid].status = "disconnected"
  /\ \E v \in AllUIDs \ {out.uid}, c \in AllConns :
        /\ registry[v].present /\ registry[v].status = "connected"
        /\ connections[v] = c /\ conn[c].st = "open"


\* C34: PushConfigToAll sends conditionally: for an agent in the session table
\* whose resolved config hash is the one its record already holds, the Range
\* callback does not go on to conn.Send (and so leaves the config status alone)
C34_PushToAllSkipsCurrent ==
  [][(push.pc = "range" /\ push'.pc = "send") =>
        push'.hash # registry[push'.uid].hash]_vars


\* goroutine i is inside a method of the syncer, waiting for Syncer.mu or holding it
InSyncer(i) == syncer.go[i].pc \in SyncerMethods

\* C35: sync callbacks run detached.  The step in which Sync returns runs no
\* callback: the goroutine it starts has not begun and no other goroutine moves
\* (but the caller, when it is a callback itself).
\* A callback that calls OnSync, GetLastCommit or Sync is never waiting for a lock
\* its own goroutine holds, and the call can complete whenever no other goroutine
\* is inside the syncer
C35_CallbacksDetached ==
  /\ [][(out'.kind \in {"synced", "syncfailed"}) =>
          \A i \in 1..MaxNotify :
            \/ syncer'.go[i] = syncer.go[i]
            \/ syncer.go[i].pc = "free" /\ syncer'.go[i].pc = "notify"
            \/ syncer.go[i].pc = "Sync" /\ syncer'.go[i].pc = "return"]_vars
  /\ [](\A i \in 1..MaxNotify : InSyncer(i) =>
          /\ i \notin syncer.mu
          /\ (\A j \in (1..MaxNotify) \ {i} : ~InSyncer(j)) => Lock(syncer))

\* a callback has called Sync, which returned a new commit and started another
\* goroutine, while the callback's own goroutine has not returned yet
C35_Witness ==
  /\ out.kind = "synced"
  /\ \E i \in 1..MaxNotify, j \in 1..MaxNotify :
        /\ syncer.go[i].pc = "return"
        /\ syncer.go[j].pc = "notify" /\ syncer.go[j].commit = syncer.lastCommit
        /\ syncer.go[j].commit # syncer.go[i].commit
  /\ syncer.callbacks > 1


\* C40: a Sync that fails leaves lastCommit as it was and starts no callback;
\* lastCommit is the commit the most recent successful Sync returned (the one the
\* working tree is at), so a successful Sync that observes another commit, right
\* after a failed one as well, starts the callbacks with that commit
C40_FailedSyncLeavesLastCommit ==
  /\ [][/\ (out'.kind \in {"syncfailed", "startfailed"}) =>
             (syncer'.lastCommit = syncer.lastCommit /\ syncer'.go = syncer.go)
        /\ (out'.kind \in {"synced", "started"} /\ head' # head) =>
             \E i \in 1..MaxNotify :
               /\ syncer.go[i].pc = "free" /\ syncer'.go[i].pc = "notify"
               /\ syncer'.go[i].commit = head']_vars
  /\ [](syncer.lastCommit = head)

\* a Sync has failed with a new commit waiting at origin, after an earlier one
\* succeeded
C40_Witness ==
  /\ out.kind = "syncfailed"
  /\ syncer.lastCommit > 0 /\ syncer.remote > syncer.lastCommit


\* C37: processing an agent description never changes the desired config hash or
\* the config status of the agent's record, also when another callback or a push
\* has written them since handleAgentDescription read the record: the UpdateAgent
\* of handleAgentDescription leaves both columns as it finds them
C37_DescriptionKeepsConfigColumns ==
  [][\A c \in AllConns : (conn[c].st = "desc" /\ conn'[c].st = "rest") =>
        /\ registry'[conn[c].uid].hash = registry[conn[c].uid].hash
        /\ registry'[conn[c].uid].cfg = registry[conn[c].uid].cfg]_vars


\* C38: every instance UID with an entry in the session table has a registry
\* record, and that record's status is connected
C38_SessionHasConnectedRecord ==
  \A u \in AllUIDs : connections[u] # NoConn =>
    (registry[u].present /\ registry[u].status = "connected")


\* UpdateAgentConfigStatus returns nil
Applied == apply.pc = "updated" /\ apply'.pc = "idle"

\* the one event UpdateAgentConfigStatus emits for the call in progress
ConfigEvent ==
  <<[type |-> IF apply.status = "failed" THEN "config_failed" ELSE "config_applied",
     uid |-> apply.uid, to |-> handlers]>>

\* C39 as stated: every UpdateAgentConfigStatus that succeeds on an existing record
\* emits exactly one event to every subscribed handler, config_failed for status
\* failed and config_applied for every other status
C39_OneEventPerUpdate ==
  [][Applied => out'.ev = ConfigEvent]_vars

\* C39, amended: it does so when the record still exists at the GetAgent that
\* follows the UPDATE; when the record has been deleted in between, the call
\* succeeds and emits nothing
C39_OneEventPerUpdateOfLiveRecord ==
  [][Applied => (/\ ~out'.err
                 /\ out'.ev = IF registry[apply.uid].present THEN ConfigEvent ELSE <<>>)]_vars

\* marking a config pending has emitted config_applied to two handlers
C39_Witness ==
  /\ out.kind = "registry" /\ out.op = "UpdateAgentConfigStatus" /\ ~out.err
  /\ registry[out.uid].present /\ registry[out.uid].cfg = "pending"
  /\ Len(out.ev) = 1 /\ out.ev[1].type = "config_applied"
  /\ Cardinality(out.ev[1].to) = 2

====
